---- MODULE Spec2Model ----
(***************************************************************************)
(* A model of leaf_colour_sepration.py: the palette editor (PaletteEditor: *)
(* edit layer, composite, fill, bulk replacement, undo/redo history) and   *)
(* the palette collection of the main window (LeafAnalysisTool).           *)
(*                                                                         *)
(* Rasters are records [w, h, px] with px a function from the pixel        *)
(* positions <<x, y>> (origin top-left) to RGB triples.  history_index is   *)
(* 0-based as in the source, so the snapshot at the cursor is               *)
(* history[history_index + 1].                                             *)
(***************************************************************************)
EXTENDS Integers, Sequences, FiniteSets, TLC

VARIABLES
    \* ---- PaletteEditor (one editor window) ----
    ed_open,                  \* the Toplevel window exists
    palette_id,               \* self.palette_id
    original_palette,         \* self.original_palette
    edit_layer,               \* self.edit_layer (RGBA)
    palette_image,            \* self.palette_image
    history,                  \* self.history
    history_index,            \* self.history_index
    drawing,                  \* self.drawing
    last_xy,                  \* (self.last_x, self.last_y)
    current_tool,             \* self.current_tool
    draw_color,               \* self.draw_color
    temp_line_start,          \* self.temp_line_start
    unique_colors_list,       \* self.unique_colors_list
    selected_rgb_to_replace,  \* self.selected_rgb_to_replace
    replacement_rgb,          \* self.replacement_rgb
    tolerance_var,            \* self.tolerance_var
    \* ---- LeafAnalysisTool ----
    original_image,           \* self.original_image
    selected_point,           \* self.selected_point
    selected_rgb,             \* self.selected_rgb
    palettes_tab1,            \* self.palettes_tab1 (dict, insertion ordered)
    palette_counter_tab1,     \* self.palette_counter_tab1
    current_palette_id_tab1,  \* self.current_palette_id_tab1
    threshold_tab1,           \* self.threshold_tab1
    selected_palettes,        \* self.selected_palettes
    boundary_tool,            \* self.boundary_tool (a LeafBoundaryTool or None)
    fill_frame,               \* the locals of a running fill_enclosed_area call
    \* ---- history of the run (not program state) ----
    pushes,                   \* number of save_to_history calls in this editor
    discarded,                \* some push dropped snapshots forward of the cursor
    edits,                    \* number of pixel-changing editor operations
    last_fill,                \* what the last fill_enclosed_area call did
    gesture_pushes,           \* save_to_history calls since the latest <Button-1>
    replace_report,           \* the message box of the latest apply_rgb_replacement
    ops                       \* number of main-window commands run so far

edVars == <<ed_open, palette_id, original_palette, edit_layer, palette_image,
            history, history_index, drawing, last_xy, current_tool, draw_color,
            temp_line_start, unique_colors_list, selected_rgb_to_replace,
            replacement_rgb, tolerance_var>>
rgbVars == <<unique_colors_list, selected_rgb_to_replace, replacement_rgb,
             tolerance_var>>
mainVars == <<original_image, selected_point, selected_rgb, palettes_tab1,
              palette_counter_tab1, current_palette_id_tab1, threshold_tab1,
              selected_palettes, boundary_tool, fill_frame, ops>>
runVars == <<pushes, discarded, edits, last_fill, gesture_pushes, replace_report>>
vars == <<edVars, mainVars, runVars>>

(***************************************************************************)
(* Bounds of the model.                                                    *)
(***************************************************************************)
ImgW == 3
ImgH == 3
MaxPushes == 16
MaxEdits == 1

(***************************************************************************)
(* Program constants.                                                      *)
(***************************************************************************)
max_history == 15
LineWidth == 5
FillTolerance == 30
WhiteLevel == 250
DefaultTolerance == 5
DefaultThreshold == 30

\* Python None: for a name, a colour or point, a list, an image
None == "None"
NoColour == <<>>
NoPoint == <<>>
NoList == <<>>
NoImage == [w |-> 0, h |-> 0, px |-> <<>>]
NoTool == [width |-> 0, height |-> 0]
NoFrame == [pc |-> "none"]
White == <<255, 255, 255>>
Transparent == <<0, 0, 0, 0>>

Abs(n) == IF n < 0 THEN 0 - n ELSE n
Min(a, b) == IF a < b THEN a ELSE b
Max(a, b) == IF a > b THEN a ELSE b

\* np.all(pixel > 250): the background test of detect_unique_colors and fill
IsWhite(c) == \A i \in 1..3 : c[i] > WhiteLevel

\* np.all(np.abs(pixel - colour) <= tolerance): the per-channel box test
WithinTol(c, d, tol) == \A i \in 1..3 : Abs(c[i] - d[i]) <= tol

Pos(w, h) == (0..(w - 1)) \X (0..(h - 1))
PosOf(img) == Pos(img.w, img.h)
SameSize(a, b) == a.w = b.w /\ a.h = b.h

\* Image.new('RGBA', size, (0, 0, 0, 0))
NewLayer(img) == [w |-> img.w, h |-> img.h, px |-> [p \in PosOf(img) |-> Transparent]]

\* image.convert('RGBA') of an RGB image: alpha 255 everywhere
ToRGBA(img) == [img EXCEPT !.px = [p \in PosOf(img) |-> img.px[p] \o <<255>>]]

\* image.convert('RGB') of an RGBA image: the alpha channel is dropped
ToRGB(img) == [img EXCEPT !.px = [p \in PosOf(img) |-> SubSeq(img.px[p], 1, 3)]]

\* Image.alpha_composite(base, layer) over an opaque base: per channel
\* (src * a + dst * (255 - a)) / 255, result alpha 255
BlendPixel(dst, src) ==
    LET a == src[4]
    IN  <<(src[1] * a + dst[1] * (255 - a)) \div 255,
          (src[2] * a + dst[2] * (255 - a)) \div 255,
          (src[3] * a + dst[3] * (255 - a)) \div 255,
          255>>
AlphaComposite(base, layer) ==
    [base EXCEPT !.px = [p \in PosOf(base) |-> BlendPixel(base.px[p], layer.px[p])]]

\* PaletteEditor.update_composite_image: the new self.palette_image
CompositeImage(base, layer) == ToRGB(AlphaComposite(ToRGBA(base), layer))

(***************************************************************************)
(* ImageDraw.line([(x1, y1), (x2, y2)], width=5) for the segments the      *)
(* model draws: a zero-length segment is one point, a horizontal or        *)
(* vertical one the rectangle reaching (width - 1) / 2 pixels to each side *)
(* of it, clipped to the image.                                            *)
(***************************************************************************)
AxisAligned(p, q) == p[1] = q[1] \/ p[2] = q[2]
LineFootprint(img, p, q) ==
    LET r == (LineWidth - 1) \div 2
    IN  IF p = q THEN {p}
        ELSE IF p[2] = q[2]
        THEN {s \in PosOf(img) : /\ Min(p[1], q[1]) <= s[1] /\ s[1] <= Max(p[1], q[1])
                                 /\ Abs(s[2] - p[2]) <= r}
        ELSE {s \in PosOf(img) : /\ Min(p[2], q[2]) <= s[2] /\ s[2] <= Max(p[2], q[2])
                                 /\ Abs(s[1] - p[1]) <= r}

\* draw_line_on_layer: the edit layer after the stroke
StrokeColor(tool, color) == IF tool = "eraser" THEN Transparent ELSE color \o <<255>>
DrawLineOnLayer(layer, tool, color, p, q) ==
    [layer EXCEPT !.px = [s \in PosOf(layer) |->
        IF s \in LineFootprint(layer, p, q) THEN StrokeColor(tool, color)
        ELSE layer.px[s]]]

(***************************************************************************)
(* fill_enclosed_area: the stack loop of lines 764-781.  Entries popped    *)
(* off the stack that are outside the image, visited already or out of     *)
(* tolerance are skipped (the three continue statements): the loop goes    *)
(* on from the topmost entry that is none of these.  FillLoop returns the  *)
(* pixel function after the loop and the set of pixels filled.             *)
(***************************************************************************)
RECURSIVE FillLoop(_, _, _, _, _, _, _)
FillLoop(w, h, px, visited, stack, target, fill) ==
    LET Fillable(c) == /\ c[1] >= 0 /\ c[1] < w /\ c[2] >= 0 /\ c[2] < h
                       /\ c \notin visited
                       /\ WithinTol(px[c], target, FillTolerance)
        live == {i \in 1..Len(stack) : Fillable(stack[i])}
    IN  IF live = {} THEN [px |-> px, visited |-> visited]
        ELSE LET top == CHOOSE i \in live : \A k \in live : k <= i
                 c == stack[top]
             IN  FillLoop(w, h, [px EXCEPT ![c] = fill], visited \cup {c},
                          SubSeq(stack, 1, top - 1)
                              \o << <<c[1] + 1, c[2]>>, <<c[1] - 1, c[2]>>,
                                    <<c[1], c[2] + 1>>, <<c[1], c[2] - 1>> >>,
                          target, fill)

\* the early returns of lines 756-763
FillRejected(img, p, fill) ==
    \/ p[1] < 0 \/ p[1] >= img.w \/ p[2] < 0 \/ p[2] >= img.h
    \/ img.px[p] = fill
    \/ IsWhite(img.px[p])

\* the result of fill_enclosed_area on img: the image and pixels_filled
FillResult(img, p, fill) ==
    IF FillRejected(img, p, fill)
    THEN [img |-> img, filled |-> {}]
    ELSE LET r == FillLoop(img.w, img.h, img.px, {}, <<p>>, img.px[p], fill)
         IN  [img |-> [img EXCEPT !.px = r.px], filled |-> r.visited]

(***************************************************************************)
(* save_to_history: truncate forward of the cursor, append, evict from the *)
(* front when longer than max_history, else advance the cursor.            *)
(***************************************************************************)
\* a faulty variant: the forward snapshots are kept
HistoryAfterPush_NoTruncate(h, idx, img) ==
    LET app == Append(h, img)
    IN  IF Len(app) > max_history THEN Tail(app) ELSE app
\* a faulty variant: the newest snapshot is evicted instead of the oldest
HistoryAfterPush_EvictNewest(h, idx, img) ==
    LET app == Append(SubSeq(h, 1, idx + 1), img)
    IN  IF Len(app) > max_history THEN SubSeq(app, 1, max_history) ELSE app
HistoryAfterPush(h, idx, img) ==
    LET app == Append(SubSeq(h, 1, idx + 1), img)
    IN  IF Len(app) > max_history THEN Tail(app) ELSE app
\* a faulty variant: the cursor advances on an overflow too
IndexAfterPush_Always(h, idx) == idx + 1
IndexAfterPush(h, idx) ==
    IF Len(SubSeq(h, 1, idx + 1)) + 1 > max_history THEN idx ELSE idx + 1

SaveToHistory(img) ==
    /\ history' = HistoryAfterPush(history, history_index, img)
    /\ history_index' = IndexAfterPush(history, history_index)
    /\ pushes' = pushes + 1
    /\ discarded' = (discarded \/ history_index < Len(history) - 1)


(***************************************************************************)
(* PaletteEditor.__init__ on a copy of the palette image.                  *)
(***************************************************************************)
EditorOpened(pid, img) ==
    /\ ed_open = TRUE
    /\ palette_id = pid
    /\ original_palette = img
    /\ edit_layer = NewLayer(img)
    /\ palette_image = CompositeImage(img, NewLayer(img))
    /\ history = <<img>>
    /\ history_index = 0
    /\ drawing = FALSE
    /\ last_xy = NoPoint
    /\ current_tool = "pencil"
    /\ draw_color = <<255, 0, 0>>
    /\ temp_line_start = NoPoint
    /\ unique_colors_list = <<>>
    /\ selected_rgb_to_replace = NoList
    /\ replacement_rgb = NoColour
    /\ tolerance_var = DefaultTolerance

\* no editor window: its fields hold nothing
EditorClosed ==
    /\ ed_open = FALSE
    /\ palette_id = None
    /\ original_palette = NoImage
    /\ edit_layer = NoImage
    /\ palette_image = NoImage
    /\ history = <<>>
    /\ history_index = 0
    /\ drawing = FALSE
    /\ last_xy = NoPoint
    /\ current_tool = None
    /\ draw_color = NoColour
    /\ temp_line_start = NoPoint
    /\ unique_colors_list = <<>>
    /\ selected_rgb_to_replace = NoList
    /\ replacement_rgb = NoColour
    /\ tolerance_var = DefaultTolerance

\* self.window.destroy()
DestroyWindow ==
    /\ ed_open' = FALSE
    /\ palette_id' = None
    /\ original_palette' = NoImage
    /\ edit_layer' = NoImage
    /\ palette_image' = NoImage
    /\ history' = <<>>
    /\ history_index' = 0
    /\ drawing' = FALSE
    /\ last_xy' = NoPoint
    /\ current_tool' = None
    /\ draw_color' = NoColour
    /\ temp_line_start' = NoPoint
    /\ unique_colors_list' = <<>>
    /\ selected_rgb_to_replace' = NoList
    /\ replacement_rgb' = NoColour
    /\ tolerance_var' = DefaultTolerance

(***************************************************************************)
(* Editor handlers.  The toolbar and panel commands are Button commands:   *)
(* they are driven by the pointer, so they run only while no mouse button  *)
(* is held on the canvas (drawing = FALSE); <B1-Motion> and                *)
(* <ButtonRelease-1> arrive only after <Button-1>.                         *)
(***************************************************************************)
select_tool(t) ==
    /\ ed_open /\ ~drawing
    /\ current_tool' = t
    /\ UNCHANGED <<ed_open, palette_id, original_palette, edit_layer, palette_image,
                   history, history_index, drawing, last_xy, draw_color,
                   temp_line_start, rgbVars, mainVars, runVars>>

\* choose_color / set_preset_color
choose_color(c) ==
    /\ ed_open /\ ~drawing
    /\ draw_color' = c
    /\ UNCHANGED <<ed_open, palette_id, original_palette, edit_layer, palette_image,
                   history, history_index, drawing, last_xy, current_tool,
                   temp_line_start, rgbVars, mainVars, runVars>>

\* fill_enclosed_area(x, y), called from on_mouse_down
fill_enclosed_area(p) ==
    LET r == FillResult(palette_image, p, draw_color)
    IN  /\ last_fill' = [seed |-> p, fill |-> draw_color, before |-> palette_image,
                          after |-> r.img, filled |-> r.filled]
        /\ IF r.filled # {}
           THEN /\ palette_image' = r.img
                /\ SaveToHistory(r.img)
                /\ edits' = edits + 1
           ELSE UNCHANGED <<palette_image, history, history_index, pushes, discarded, edits>>

on_mouse_down(p) ==
    /\ ed_open /\ ~drawing
    /\ drawing' = TRUE
    /\ IF current_tool = "fill"
       THEN /\ fill_enclosed_area(p)
            /\ UNCHANGED <<temp_line_start, last_xy>>
       ELSE IF current_tool = "line"
       THEN /\ temp_line_start' = p
            /\ UNCHANGED <<last_xy, palette_image, history, history_index, pushes,
                           discarded, edits, last_fill>>
       ELSE /\ last_xy' = p
            /\ UNCHANGED <<temp_line_start, palette_image, history, history_index,
                           pushes, discarded, edits, last_fill>>
    /\ gesture_pushes' = pushes' - pushes
    /\ UNCHANGED <<ed_open, palette_id, original_palette, edit_layer, current_tool,
                   draw_color, rgbVars, mainVars, replace_report>>

\* draw_line_on_layer followed by update_composite_image
draw_line_on_layer(p, q) ==
    /\ AxisAligned(p, q)
    /\ edit_layer' = DrawLineOnLayer(edit_layer, current_tool, draw_color, p, q)
    /\ palette_image' = CompositeImage(original_palette, edit_layer')
    /\ edits' = IF edit_layer' # edit_layer \/ palette_image' # palette_image
                THEN edits + 1 ELSE edits

on_mouse_drag(p) ==
    /\ ed_open /\ drawing
    /\ IF current_tool \in {"pencil", "eraser"} /\ last_xy # NoPoint
       THEN /\ draw_line_on_layer(last_xy, p)
            /\ last_xy' = p
       ELSE UNCHANGED <<edit_layer, palette_image, last_xy, edits>>
    /\ UNCHANGED <<ed_open, palette_id, original_palette, history, history_index,
                   drawing, current_tool, draw_color, temp_line_start, rgbVars,
                   mainVars, pushes, discarded, last_fill, gesture_pushes,
                   replace_report>>

\* a faulty variant: the release pushes whatever the tool
ReleasePushes_Always(tool) == TRUE
\* line 740: the release pushes a snapshot unless the tool is the fill tool
ReleasePushes(tool) == tool # "fill"

on_mouse_up(p) ==
    /\ ed_open /\ drawing
    /\ IF current_tool = "line" /\ temp_line_start # NoPoint
       THEN draw_line_on_layer(temp_line_start, p)
       ELSE UNCHANGED <<edit_layer, palette_image, edits>>
    /\ temp_line_start' = IF current_tool = "line" THEN NoPoint ELSE temp_line_start
    /\ drawing' = FALSE
    /\ last_xy' = NoPoint
    /\ IF ReleasePushes(current_tool)
       THEN SaveToHistory(palette_image')
       ELSE UNCHANGED <<history, history_index, pushes, discarded>>
    /\ gesture_pushes' = gesture_pushes + (pushes' - pushes)
    /\ UNCHANGED <<ed_open, palette_id, original_palette, current_tool, draw_color,
                   rgbVars, mainVars, last_fill, replace_report>>

\* a faulty variant: the cursor moves back and the image is not reloaded
UndoResult_NoReload(h, idx, img) ==
    IF idx > 0 THEN [idx |-> idx - 1, img |-> img]
    ELSE [idx |-> idx, img |-> img]
\* undo, lines 638-640: the new cursor and image
UndoResult(h, idx, img) ==
    IF idx > 0 THEN [idx |-> idx - 1, img |-> h[idx]]
    ELSE [idx |-> idx, img |-> img]

\* a faulty variant: the cursor advances and the image is not reloaded
RedoResult_NoReload(h, idx, img) ==
    IF idx < Len(h) - 1 THEN [idx |-> idx + 1, img |-> img]
    ELSE [idx |-> idx, img |-> img]
\* redo, lines 646-648: the new cursor and image
RedoResult(h, idx, img) ==
    IF idx < Len(h) - 1 THEN [idx |-> idx + 1, img |-> h[idx + 2]]
    ELSE [idx |-> idx, img |-> img]

undo ==
    /\ ed_open /\ ~drawing
    /\ history_index' = UndoResult(history, history_index, palette_image).idx
    /\ palette_image' = UndoResult(history, history_index, palette_image).img
    /\ UNCHANGED <<ed_open, palette_id, original_palette, edit_layer, history, drawing,
                   last_xy, current_tool, draw_color, temp_line_start, rgbVars,
                   mainVars, runVars>>

redo ==
    /\ ed_open /\ ~drawing
    /\ history_index' = RedoResult(history, history_index, palette_image).idx
    /\ palette_image' = RedoResult(history, history_index, palette_image).img
    /\ UNCHANGED <<ed_open, palette_id, original_palette, edit_layer, history, drawing,
                   last_xy, current_tool, draw_color, temp_line_start, rgbVars,
                   mainVars, runVars>>

(***************************************************************************)
(* The dict self.palettes_tab1: a sequence of [id, img] in insertion order.*)
(***************************************************************************)
Keys(d) == [i \in 1..Len(d) |-> d[i].id]
KeySet(d) == {d[i].id : i \in 1..Len(d)}
Has(d, id) == id \in KeySet(d)
Get(d, id) == (CHOOSE e \in {d[i] : i \in 1..Len(d)} : e.id = id).img
\* a faulty variant: the assignment reaches every raster of the dict
Put_All(d, id, img) ==
    IF Has(d, id)
    THEN [i \in 1..Len(d) |-> [id |-> d[i].id, img |-> img]]
    ELSE Append(d, [id |-> id, img |-> img])
\* d[id] = img: in place for an existing key, appended for a new one
Put(d, id, img) ==
    IF Has(d, id)
    THEN [i \in 1..Len(d) |-> IF d[i].id = id THEN [id |-> id, img |-> img] ELSE d[i]]
    ELSE Append(d, [id |-> id, img |-> img])
\* del d[id] / d.pop(id)
Del(d, id) == SelectSeq(d, LAMBDA e : e.id # id)

(***************************************************************************)
(* detect_unique_colors: np.unique(axis=0) lists the non-white colours in  *)
(* lexicographic order with their counts; argsort(-counts) then orders     *)
(* them by count, descending, keeping that order among equal counts (the   *)
(* sort is an insertion sort below 17 entries).                            *)
(***************************************************************************)
LexLess(c, d) ==
    \/ c[1] < d[1]
    \/ c[1] = d[1] /\ c[2] < d[2]
    \/ c[1] = d[1] /\ c[2] = d[2] /\ c[3] < d[3]
ColourCount(img, c) == Cardinality({p \in PosOf(img) : img.px[p] = c})
NonWhiteColours(img) == {img.px[p] : p \in {q \in PosOf(img) : ~IsWhite(img.px[q])}}
\* a faulty variant: among equal counts the larger colour comes first
RECURSIVE ByCountDesc_TiesReversed(_, _)
ByCountDesc_TiesReversed(img, cs) ==
    IF cs = {} THEN <<>>
    ELSE LET top == CHOOSE c \in cs : \A d \in cs \ {c} :
                        \/ ColourCount(img, c) > ColourCount(img, d)
                        \/ ColourCount(img, c) = ColourCount(img, d) /\ LexLess(d, c)
         IN  << <<top, ColourCount(img, top)>> >>
                 \o ByCountDesc_TiesReversed(img, cs \ {top})
RECURSIVE ByCountDesc(_, _)
ByCountDesc(img, cs) ==
    IF cs = {} THEN <<>>
    ELSE LET top == CHOOSE c \in cs : \A d \in cs \ {c} :
                        \/ ColourCount(img, c) > ColourCount(img, d)
                        \/ ColourCount(img, c) = ColourCount(img, d) /\ LexLess(c, d)
         IN  << <<top, ColourCount(img, top)>> >> \o ByCountDesc(img, cs \ {top})
DetectUniqueColors(img) == ByCountDesc(img, NonWhiteColours(img))

detect_and_populate_colors ==
    /\ ed_open /\ ~drawing
    /\ unique_colors_list' = IF Len(DetectUniqueColors(palette_image)) = 0
                             THEN unique_colors_list
                             ELSE DetectUniqueColors(palette_image)
    /\ UNCHANGED <<ed_open, palette_id, original_palette, edit_layer, palette_image,
                   history, history_index, drawing, last_xy, current_tool, draw_color,
                   temp_line_start, selected_rgb_to_replace, replacement_rgb,
                   tolerance_var, mainVars, runVars>>

\* the listbox rows sel (0-based, ascending as curselection returns them)
RECURSIVE RowsAscending(_)
RowsAscending(sel) ==
    IF sel = {} THEN <<>>
    ELSE LET m == CHOOSE i \in sel : \A j \in sel : i <= j
         IN  <<m>> \o RowsAscending(sel \ {m})
on_source_colors_select(sel) ==
    /\ ed_open /\ ~drawing
    /\ sel \subseteq 0..(Len(unique_colors_list) - 1)
    /\ selected_rgb_to_replace' =
          IF sel = {} THEN selected_rgb_to_replace
          ELSE [k \in 1..Cardinality(sel) |->
                   unique_colors_list[RowsAscending(sel)[k] + 1][1]]
    /\ UNCHANGED <<ed_open, palette_id, original_palette, edit_layer, palette_image,
                   history, history_index, drawing, last_xy, current_tool, draw_color,
                   temp_line_start, unique_colors_list, replacement_rgb,
                   tolerance_var, mainVars, runVars>>

choose_replacement_color(c) ==
    /\ ed_open /\ ~drawing
    /\ replacement_rgb' = c
    /\ UNCHANGED <<ed_open, palette_id, original_palette, edit_layer, palette_image,
                   history, history_index, drawing, last_xy, current_tool, draw_color,
                   temp_line_start, unique_colors_list, selected_rgb_to_replace,
                   tolerance_var, mainVars, runVars>>

\* the tolerance slider (0..50)
set_tolerance(t) ==
    /\ ed_open /\ ~drawing
    /\ t \in 0..50
    /\ tolerance_var' = t
    /\ UNCHANGED <<ed_open, palette_id, original_palette, edit_layer, palette_image,
                   history, history_index, drawing, last_xy, current_tool, draw_color,
                   temp_line_start, unique_colors_list, selected_rgb_to_replace,
                   replacement_rgb, mainVars, runVars>>

(***************************************************************************)
(* apply_rgb_replacement, lines 549-576: each source colour in turn is     *)
(* matched against the working array as the earlier iterations left it.    *)
(***************************************************************************)
ReplaceMask(img, px, source, tol) == {p \in PosOf(img) : WithinTol(px[p], source, tol)}
\* a faulty variant: the loop ends after the first source colour
ReplaceLoop_FirstOnly(img, px, sources, k, target, tol, total) ==
    LET mask == ReplaceMask(img, px, sources[1], tol)
    IN  [px |-> [p \in PosOf(img) |-> IF p \in mask THEN target ELSE px[p]],
         total |-> Cardinality(mask)]
\* a faulty variant: the loop ends after the first source colour that matched
RECURSIVE ReplaceLoop_StopAtMatch(_, _, _, _, _, _, _)
ReplaceLoop_StopAtMatch(img, px, sources, k, target, tol, total) ==
    IF k > Len(sources) THEN [px |-> px, total |-> total]
    ELSE LET mask == ReplaceMask(img, px, sources[k], tol)
         IN  IF mask # {}
             THEN [px |-> [p \in PosOf(img) |-> IF p \in mask THEN target ELSE px[p]],
                   total |-> total + Cardinality(mask)]
             ELSE ReplaceLoop_StopAtMatch(img, px, sources, k + 1, target, tol, total)
RECURSIVE ReplaceLoop(_, _, _, _, _, _, _)
ReplaceLoop(img, px, sources, k, target, tol, total) ==
    IF k > Len(sources) THEN [px |-> px, total |-> total]
    ELSE LET mask == ReplaceMask(img, px, sources[k], tol)
         IN  ReplaceLoop(img, [p \in PosOf(img) |-> IF p \in mask THEN target ELSE px[p]],
                         sources, k + 1, target, tol, total + Cardinality(mask))
ReplaceResult(img, sources, target, tol) ==
    LET r == ReplaceLoop(img, img.px, sources, 1, target, tol, 0)
    IN  [img |-> [img EXCEPT !.px = r.px], total |-> r.total]

\* the outcome apply_rgb_replacement reports in its message box
NoReport == [outcome |-> "none", total |-> 0]
Report(outcome, total) == [outcome |-> outcome, total |-> total]
\* a faulty variant: a replacement that matched nothing is applied all the same
NothingMatched_Never(total) == FALSE
\* line 573: if total_pixels_changed == 0
NothingMatched(total) == total = 0

apply_rgb_replacement ==
    /\ ed_open /\ ~drawing
    /\ IF Len(selected_rgb_to_replace) = 0
       THEN /\ replace_report' = Report("no_source", 0)
            /\ UNCHANGED <<palette_image, history, history_index,
                           selected_rgb_to_replace, replacement_rgb, pushes,
                           discarded, edits>>
       ELSE IF replacement_rgb = NoColour
       THEN /\ replace_report' = Report("no_target", 0)
            /\ UNCHANGED <<palette_image, history, history_index,
                           selected_rgb_to_replace, replacement_rgb, pushes,
                           discarded, edits>>
       ELSE LET r == ReplaceResult(palette_image, selected_rgb_to_replace,
                                   replacement_rgb, tolerance_var)
            IN  IF NothingMatched(r.total)
                THEN /\ replace_report' = Report("no_match", 0)
                     /\ UNCHANGED <<palette_image, history, history_index,
                                    selected_rgb_to_replace, replacement_rgb, pushes,
                                    discarded, edits>>
                ELSE /\ palette_image' = r.img
                     /\ SaveToHistory(r.img)
                     /\ selected_rgb_to_replace' = NoList
                     /\ replacement_rgb' = NoColour
                     /\ edits' = edits + 1
                     /\ replace_report' = Report("done", r.total)
    /\ UNCHANGED <<ed_open, palette_id, original_palette, edit_layer, drawing, last_xy,
                   current_tool, draw_color, temp_line_start, unique_colors_list,
                   tolerance_var, mainVars, last_fill, gesture_pushes>>

\* Cancel: self.window.destroy
cancel ==
    /\ ed_open /\ ~drawing
    /\ DestroyWindow
    /\ UNCHANGED <<mainVars, runVars>>

\* LeafAnalysisTool.refresh_palette_display_tab1: the rows are rebuilt with
\* unchecked boxes and the selection set is cleared
\* a faulty variant: the rows are rebuilt and the selection set is kept
RefreshPaletteDisplay_KeepSelection == UNCHANGED selected_palettes
RefreshPaletteDisplay == selected_palettes' = {}

\* LeafAnalysisTool.update_palette_tab1(palette_id, updated_image)
update_palette_tab1(pid, img) ==
    /\ palettes_tab1' = Put(palettes_tab1, pid, img)
    /\ RefreshPaletteDisplay

\* PaletteEditor.save_changes: the callback, then the window is destroyed
save_changes ==
    /\ ed_open /\ ~drawing
    /\ update_palette_tab1(palette_id, palette_image)
    /\ DestroyWindow
    /\ UNCHANGED <<original_image, selected_point, selected_rgb, palette_counter_tab1,
                   current_palette_id_tab1, threshold_tab1, boundary_tool,
                   fill_frame, runVars, ops>>


(***************************************************************************)
(* Source images of the model: a white frame one pixel wide around an      *)
(* interior whose first column has colour a and whose other columns have   *)
(* colour b.                                                               *)
(***************************************************************************)
OnFrame(w, h, p) == p[1] = 0 \/ p[2] = 0 \/ p[1] = w - 1 \/ p[2] = h - 1
Interior(w, h) == {p \in Pos(w, h) : ~OnFrame(w, h, p)}
Leaf(w, h, a, b) ==
    [w |-> w, h |-> h,
     px |-> [p \in Pos(w, h) |-> IF OnFrame(w, h, p) THEN White
                                 ELSE IF p[1] = 1 THEN a ELSE b]]

(***************************************************************************)
(* global_separation_tab1, lines 1326-1334: cv2.inRange against the        *)
(* clamped bounds, matched pixels copied onto a 255 background.            *)
(***************************************************************************)
InRange(c, rgb, thr) ==
    \A i \in 1..3 : Max(0, rgb[i] - thr) <= c[i] /\ c[i] <= Min(255, rgb[i] + thr)
SeparationMask(img, rgb, thr) == {p \in PosOf(img) : InRange(img.px[p], rgb, thr)}
Separated(img, rgb, thr) ==
    [img EXCEPT !.px = [p \in PosOf(img) |->
        IF p \in SeparationMask(img, rgb, thr) THEN img.px[p] ELSE White]]

\* f"RGB{self.selected_rgb}_Palette_{n}"
ColourText(c) ==
    "(" \o ToString(c[1]) \o ", " \o ToString(c[2]) \o ", " \o ToString(c[3]) \o ")"
SeparationId(rgb, n) == "RGB" \o ColourText(rgb) \o "_Palette_" \o ToString(n)

\* the main window after upload, a click on pt and one global separation
MainAfterSeparation(src, pt) ==
    /\ original_image = src
    /\ selected_point = pt
    /\ selected_rgb = src.px[pt]
    /\ threshold_tab1 = DefaultThreshold
    /\ palette_counter_tab1 = 1
    /\ palettes_tab1 = << [id |-> SeparationId(src.px[pt], 1),
                           img |-> Separated(src, src.px[pt], DefaultThreshold)] >>
    /\ current_palette_id_tab1 = SeparationId(src.px[pt], 1)
    /\ selected_palettes = {}
    /\ boundary_tool = NoTool
    /\ fill_frame = NoFrame
    /\ ops = 3

\* the main window after upload, a click on pt and two global separations
MainAfterTwoSeparations(src, pt) ==
    /\ original_image = src
    /\ selected_point = pt
    /\ selected_rgb = src.px[pt]
    /\ threshold_tab1 = DefaultThreshold
    /\ palette_counter_tab1 = 2
    /\ palettes_tab1 = << [id |-> SeparationId(src.px[pt], 1),
                           img |-> Separated(src, src.px[pt], DefaultThreshold)],
                          [id |-> SeparationId(src.px[pt], 2),
                           img |-> Separated(src, src.px[pt], DefaultThreshold)] >>
    /\ current_palette_id_tab1 = SeparationId(src.px[pt], 2)
    /\ selected_palettes = {}
    /\ boundary_tool = NoTool
    /\ fill_frame = NoFrame
    /\ ops = 4

(***************************************************************************)
(* The editor opened on the palette pid of the collection, after n plain   *)
(* pencil clicks (press and release on one point, no drag): each release   *)
(* pushed one snapshot of the unchanged image.                             *)
(***************************************************************************)
EditorAfterClicks(pid, n) ==
    LET img == Get(palettes_tab1, pid)
    IN  /\ ed_open = TRUE
        /\ palette_id = pid
        /\ original_palette = img
        /\ edit_layer = NewLayer(img)
        /\ palette_image = CompositeImage(img, NewLayer(img))
        /\ history = [k \in 1..Min(n + 1, max_history) |-> img]
        /\ history_index = Min(n, max_history - 1)
        /\ drawing = FALSE
        /\ last_xy = NoPoint
        /\ current_tool = "pencil"
        /\ draw_color = <<255, 0, 0>>
        /\ temp_line_start = NoPoint
        /\ tolerance_var = DefaultTolerance
        /\ pushes = n
        /\ discarded = FALSE
        /\ edits = 0
        /\ last_fill = [seed |-> NoPoint, fill |-> NoColour, before |-> NoImage,
                        after |-> NoImage, filled |-> {}]
        /\ gesture_pushes = IF n > 0 THEN 1 ELSE 0
        /\ replace_report = NoReport

(***************************************************************************)
(* Spec: one editor session on a palette separated from a leaf image,      *)
(* followed up to and past the overflow of the history: the session has    *)
(* max_history - 2 clicks already recorded and the RGB panel set up, and   *)
(* goes on with the pencil and the fill tool, a bulk replacement, undo and *)
(* redo.                                                                   *)
(***************************************************************************)
Red == <<200, 0, 0>>
Blue == <<0, 0, 255>>
HistPoints == {<<1, 1>>}
HistTools == {"pencil", "fill"}
Tools == {"pencil", "line", "fill", "eraser"}
Rows == SUBSET (0..(Len(unique_colors_list) - 1))
Budget(maxPushes, maxEdits) == pushes' <= maxPushes /\ edits' <= maxEdits
\* the replacements of a session that found pixels to change
Matched == replace_report'.outcome = "done"

\* the RGB panel as __init__ leaves it
PanelUntouched ==
    /\ unique_colors_list = <<>>
    /\ selected_rgb_to_replace = NoList
    /\ replacement_rgb = NoColour

\* the RGB panel after Detect Colors, Select All and Pick Color, which leave
\* the image and the history alone
PanelReady(target) ==
    /\ unique_colors_list = DetectUniqueColors(palette_image)
    /\ selected_rgb_to_replace =
          [k \in 1..Len(unique_colors_list) |-> unique_colors_list[k][1]]
    /\ replacement_rgb = target

Init ==
    /\ MainAfterSeparation(Leaf(ImgW, ImgH, Red, Red), <<1, 1>>)
    /\ EditorAfterClicks(current_palette_id_tab1, max_history - 2)
    /\ PanelReady(Blue)

Next ==
    \/ \E t \in HistTools : select_tool(t)
    \/ on_mouse_down(<<1, 1>>) /\ Budget(MaxPushes, MaxEdits)
    \/ \E p \in HistPoints : on_mouse_drag(p) /\ Budget(MaxPushes, MaxEdits)
    \/ on_mouse_up(<<1, 1>>) /\ Budget(MaxPushes, MaxEdits)
    \/ undo
    \/ redo
    \/ apply_rgb_replacement /\ Matched /\ Budget(MaxPushes, MaxEdits)
    \/ save_changes
    \/ cancel

Spec == Init /\ [][Next]_vars

(***************************************************************************)
(* The main window.  Its commands run whether or not an editor window is   *)
(* open (the editor is a plain Toplevel, without a grab).  A command that  *)
(* raises inside numpy (rasters of different shapes) ends there: what it   *)
(* assigned before the raise stays, nothing after it happens.              *)
(***************************************************************************)
edAll == <<edVars, runVars, boundary_tool, fill_frame>>

\* LeafAnalysisTool.__init__, lines 880-891
MainConstructed ==
    /\ original_image = NoImage
    /\ selected_point = NoPoint
    /\ selected_rgb = NoColour
    /\ palettes_tab1 = <<>>
    /\ palette_counter_tab1 = 0
    /\ current_palette_id_tab1 = None
    /\ threshold_tab1 = DefaultThreshold
    /\ selected_palettes = {}
    /\ boundary_tool = NoTool
    /\ ops = 0

\* upload_image with a file chosen: the palettes are left as they are
upload_image(img) ==
    /\ original_image' = img
    /\ selected_point' = NoPoint
    /\ UNCHANGED <<selected_rgb, palettes_tab1, palette_counter_tab1,
                   current_palette_id_tab1, threshold_tab1, selected_palettes, edAll>>
    /\ ops' = ops + 1

\* on_image_click, for a click that lands on pixel p of the image
on_image_click(p) ==
    /\ original_image # NoImage
    /\ p \in PosOf(original_image)
    /\ selected_point' = p
    /\ selected_rgb' = original_image.px[p]
    /\ UNCHANGED <<original_image, palettes_tab1, palette_counter_tab1,
                   current_palette_id_tab1, threshold_tab1, selected_palettes, edAll>>
    /\ ops' = ops + 1

\* a command that ends at its validation: a warning box, then return
Rejected ==
    /\ UNCHANGED <<original_image, selected_point, selected_rgb, palettes_tab1,
                   palette_counter_tab1, current_palette_id_tab1, threshold_tab1,
                   selected_palettes, edAll>>
    /\ ops' = ops + 1

\* lines 1322-1324
SeparationRejected == original_image = NoImage \/ selected_rgb = NoColour

global_separation_tab1 ==
    IF SeparationRejected THEN Rejected
    ELSE
         /\ palette_counter_tab1' = palette_counter_tab1 + 1
         /\ palettes_tab1' = Put(palettes_tab1,
                                 SeparationId(selected_rgb, palette_counter_tab1 + 1),
                                 Separated(original_image, selected_rgb, threshold_tab1))
         /\ current_palette_id_tab1' = SeparationId(selected_rgb, palette_counter_tab1 + 1)
         /\ UNCHANGED <<original_image, selected_point, selected_rgb, threshold_tab1,
                        selected_palettes, edAll>>
         /\ ops' = ops + 1

\* a faulty variant: the rest of the palette is whitened, as a global
\* separation does
LocallySeparated_Whitening(pal, img, rgb, thr) ==
    [pal EXCEPT !.px = [p \in PosOf(pal) |->
        IF p \in SeparationMask(img, rgb, thr) THEN img.px[p] ELSE White]]
\* lines 1361-1363: masked pixels of the current palette take the source's
LocallySeparated(pal, img, rgb, thr) ==
    [pal EXCEPT !.px = [p \in PosOf(pal) |->
        IF p \in SeparationMask(img, rgb, thr) THEN img.px[p] ELSE pal.px[p]]]

\* lines 1348-1350
LocalRejected == Len(palettes_tab1) = 0 \/ selected_rgb = NoColour

local_separation_tab1 ==
    IF LocalRejected THEN Rejected
    ELSE
         /\ LET cur == IF current_palette_id_tab1 = None
                       THEN palettes_tab1[Len(palettes_tab1)].id
                       ELSE current_palette_id_tab1
            IN  /\ current_palette_id_tab1' = cur
                /\ IF original_image # NoImage /\ SameSize(Get(palettes_tab1, cur), original_image)
                   THEN /\ palettes_tab1' = Put(palettes_tab1, cur,
                               LocallySeparated(Get(palettes_tab1, cur), original_image,
                                                selected_rgb, threshold_tab1))
                        /\ RefreshPaletteDisplay
                   ELSE UNCHANGED <<palettes_tab1, selected_palettes>>
         /\ UNCHANGED <<original_image, selected_point, selected_rgb, palette_counter_tab1,
                        threshold_tab1, edAll>>
         /\ ops' = ops + 1

\* the checkbox of a palette row
toggle_palette_selection(id) ==
    /\ Has(palettes_tab1, id)
    /\ selected_palettes' = IF id \in selected_palettes
                            THEN selected_palettes \ {id}
                            ELSE selected_palettes \cup {id}
    /\ UNCHANGED <<original_image, selected_point, selected_rgb, palettes_tab1,
                   palette_counter_tab1, current_palette_id_tab1, threshold_tab1, edAll>>
    /\ ops' = ops + 1

\* rename_palette_tab1 with new_name typed into the dialog
rename_palette_tab1(old_id, new_name) ==
    /\ Has(palettes_tab1, old_id)
    /\ new_name # old_id
    /\ IF Has(palettes_tab1, new_name)
       THEN UNCHANGED <<palettes_tab1, current_palette_id_tab1, selected_palettes>>
       ELSE /\ palettes_tab1' = Put(Del(palettes_tab1, old_id), new_name,
                                    Get(palettes_tab1, old_id))
            /\ current_palette_id_tab1' = IF current_palette_id_tab1 = old_id
                                          THEN new_name ELSE current_palette_id_tab1
            /\ RefreshPaletteDisplay
    /\ UNCHANGED <<original_image, selected_point, selected_rgb, palette_counter_tab1,
                   threshold_tab1, edAll>>
    /\ ops' = ops + 1

delete_palette_tab1(id) ==
    /\ Has(palettes_tab1, id)
    /\ palettes_tab1' = Del(palettes_tab1, id)
    /\ current_palette_id_tab1' = IF current_palette_id_tab1 = id
                                  THEN None ELSE current_palette_id_tab1
    /\ RefreshPaletteDisplay
    /\ UNCHANGED <<original_image, selected_point, selected_rgb, palette_counter_tab1,
                   threshold_tab1, edAll>>
    /\ ops' = ops + 1

clear_all_palettes_tab1 ==
    /\ Len(palettes_tab1) > 0
    /\ palettes_tab1' = <<>>
    /\ palette_counter_tab1' = 0
    /\ current_palette_id_tab1' = None
    /\ selected_palettes' = {}
    /\ UNCHANGED <<original_image, selected_point, selected_rgb, threshold_tab1, edAll>>
    /\ ops' = ops + 1

\* the orders list(self.selected_palettes) can give for a set of strings
Orders(S) == {f \in [1..Cardinality(S) -> S] : \A i, j \in 1..Cardinality(S) :
                                                   f[i] = f[j] => i = j}

\* lines 1480-1482: pixels of b that are not (255, 255, 255) overwrite a's
MergeTwo(a, b) ==
    [a EXCEPT !.px = [p \in PosOf(a) |-> IF b.px[p] # White THEN b.px[p] ELSE a.px[p]]]
\* a faulty variant: the accumulated raster is laid over the next palette
RECURSIVE MergeFrom_BaseOnTop(_, _, _, _)
MergeFrom_BaseOnTop(d, ids, k, acc) ==
    IF k > Len(ids) THEN acc
    ELSE MergeFrom_BaseOnTop(d, ids, k + 1, MergeTwo(Get(d, ids[k]), acc))
RECURSIVE MergeFrom(_, _, _, _)
MergeFrom(d, ids, k, acc) ==
    IF k > Len(ids) THEN acc
    ELSE MergeFrom(d, ids, k + 1, MergeTwo(acc, Get(d, ids[k])))
MergeList(d, ids) == MergeFrom(d, ids, 2, Get(d, ids[1]))
\* the boolean masks index the merged array: every operand has its shape
Mergeable(d, ids) == \A k \in 1..Len(ids) : SameSize(Get(d, ids[k]), Get(d, ids[1]))

\* lines 1472-1474
MergeSelectedRejected_OffByOne(selected) == Cardinality(selected) < 1
MergeSelectedRejected(selected) == Cardinality(selected) < 2

merge_selected_palettes(selected_list) ==
    /\ selected_list \in Orders(selected_palettes)
    /\ IF MergeSelectedRejected(selected_palettes) THEN Rejected
       ELSE
            /\ IF Mergeable(palettes_tab1, selected_list)
               THEN /\ palette_counter_tab1' = palette_counter_tab1 + 1
                    /\ palettes_tab1' = Put(palettes_tab1,
                           "Merged_Selected_" \o ToString(palette_counter_tab1 + 1),
                           MergeList(palettes_tab1, selected_list))
                    /\ RefreshPaletteDisplay
               ELSE UNCHANGED <<palette_counter_tab1, palettes_tab1, selected_palettes>>
            /\ UNCHANGED <<original_image, selected_point, selected_rgb,
                           current_palette_id_tab1, threshold_tab1, edAll>>
            /\ ops' = ops + 1

\* lines 1497-1499
MergeAllRejected(d) == Len(d) < 2

merge_all_palettes ==
    IF MergeAllRejected(palettes_tab1) THEN Rejected
    ELSE
         /\ IF Mergeable(palettes_tab1, Keys(palettes_tab1))
            THEN /\ palette_counter_tab1' = palette_counter_tab1 + 1
                 /\ palettes_tab1' = Put(palettes_tab1,
                        "Merged_All_" \o ToString(palette_counter_tab1 + 1),
                        MergeList(palettes_tab1, Keys(palettes_tab1)))
                 /\ RefreshPaletteDisplay
            ELSE UNCHANGED <<palette_counter_tab1, palettes_tab1, selected_palettes>>
         /\ UNCHANGED <<original_image, selected_point, selected_rgb,
                        current_palette_id_tab1, threshold_tab1, edAll>>
         /\ ops' = ops + 1

\* a faulty variant: the merged occupancy is kept and the rest is whitened
XorImage_Intersect(orig, merged) ==
    [orig EXCEPT !.px = [p \in PosOf(orig) |->
        IF merged.px[p] # White THEN orig.px[p] ELSE White]]
\* lines 1537-1540: the source with the merged occupancy forced to white
XorImage(orig, merged) ==
    [orig EXCEPT !.px = [p \in PosOf(orig) |->
        IF merged.px[p] # White THEN White ELSE orig.px[p]]]

\* lines 1521-1527
XorRejected == Cardinality(selected_palettes) < 1 \/ original_image = NoImage

xor_selected_palettes(selected_list) ==
    /\ selected_list \in Orders(selected_palettes)
    /\ IF XorRejected THEN Rejected
       ELSE
            /\ IF /\ Mergeable(palettes_tab1, selected_list)
                  /\ SameSize(Get(palettes_tab1, selected_list[1]), original_image)
               THEN /\ palette_counter_tab1' = palette_counter_tab1 + 1
                    /\ palettes_tab1' = Put(palettes_tab1,
                           "XOR_Selected_" \o ToString(palette_counter_tab1 + 1),
                           XorImage(original_image, MergeList(palettes_tab1, selected_list)))
                    /\ RefreshPaletteDisplay
               ELSE UNCHANGED <<palette_counter_tab1, palettes_tab1, selected_palettes>>
            /\ UNCHANGED <<original_image, selected_point, selected_rgb,
                           current_palette_id_tab1, threshold_tab1, edAll>>
            /\ ops' = ops + 1

\* edit_palette_tab1: PaletteEditor.__init__ on copies of the palette raster
edit_palette_tab1(pid) ==
    /\ ~ed_open
    /\ Has(palettes_tab1, pid)
    /\ LET img == Get(palettes_tab1, pid)
       IN  /\ ed_open' = TRUE
           /\ palette_id' = pid
           /\ original_palette' = img
           /\ edit_layer' = NewLayer(img)
           /\ palette_image' = CompositeImage(img, NewLayer(img))
           /\ history' = <<img>>
           /\ history_index' = 0
           /\ drawing' = FALSE
           /\ last_xy' = NoPoint
           /\ current_tool' = "pencil"
           /\ draw_color' = <<255, 0, 0>>
           /\ temp_line_start' = NoPoint
           /\ unique_colors_list' = <<>>
           /\ selected_rgb_to_replace' = NoList
           /\ replacement_rgb' = NoColour
           /\ tolerance_var' = DefaultTolerance
    /\ pushes' = 0
    /\ discarded' = FALSE
    /\ edits' = 0
    /\ last_fill' = [seed |-> NoPoint, fill |-> NoColour, before |-> NoImage,
                     after |-> NoImage, filled |-> {}]
    /\ gesture_pushes' = 0
    /\ replace_report' = NoReport
    /\ ops' = ops + 1
    /\ UNCHANGED <<original_image, selected_point, selected_rgb, palettes_tab1,
                   palette_counter_tab1, current_palette_id_tab1, threshold_tab1,
                   selected_palettes, boundary_tool, fill_frame>>

(***************************************************************************)
(* SpecEd: one editor session from its opening, on the first of two        *)
(* palettes separated from a leaf whose interior has one colour, with      *)
(* every tool, strokes along one row, a bulk replacement of every detected *)
(* colour, undo, redo, commit and cancel.                                  *)
(***************************************************************************)
EdW == 4
EdH == 3
EdMaxPushes == 2
EdMaxEdits == 1
Pale == <<240, 240, 240>>
EdColours == {Red, Pale}
EdPoints == {<<0, 1>>, <<1, 1>>}

InitEd ==
    /\ \E c \in EdColours : MainAfterTwoSeparations(Leaf(EdW, EdH, c, c), <<1, 1>>)
    /\ EditorAfterClicks(palettes_tab1[1].id, 0)
    /\ PanelReady(Blue)

NextEd ==
    \/ \E t \in Tools : select_tool(t)
    \/ \E p \in EdPoints : on_mouse_down(p) /\ Budget(EdMaxPushes, EdMaxEdits)
    \/ \E p \in EdPoints : on_mouse_drag(p) /\ Budget(EdMaxPushes, EdMaxEdits)
    \/ \E p \in EdPoints : on_mouse_up(p) /\ Budget(EdMaxPushes, EdMaxEdits)
    \/ undo
    \/ redo
    \/ apply_rgb_replacement /\ Matched /\ Budget(EdMaxPushes, EdMaxEdits)
    \/ save_changes
    \/ cancel

SpecEd == InitEd /\ [][NextEd]_vars

(***************************************************************************)
(* SpecColl: the main window from its construction, with leaf images of    *)
(* two sizes to upload, clicks on two pixels, every command on the         *)
(* palette collection, and editor windows opened, committed and cancelled. *)
(***************************************************************************)
CollW == 3
CollH == 3
CollMaxOps == 8
CollImages == {Leaf(CollW, CollH, Red, Blue), Leaf(CollW + 1, CollH, Red, Blue)}
CollPoints == {<<1, 1>>, <<2, 1>>}
CollNames == {SeparationId(Red, 2), "leaf"}
OpsBudget == ops < CollMaxOps

\* the main window as constructed, no editor window
NoEditorYet ==
    /\ MainConstructed
    /\ EditorClosed
    /\ pushes = 0 /\ discarded = FALSE /\ edits = 0 /\ gesture_pushes = 0
    /\ replace_report = NoReport
    /\ last_fill = [seed |-> NoPoint, fill |-> NoColour, before |-> NoImage,
                    after |-> NoImage, filled |-> {}]

InitColl == NoEditorYet /\ fill_frame = NoFrame

NextColl ==
    \/ OpsBudget /\ \E img \in CollImages : upload_image(img)
    \/ OpsBudget /\ \E p \in CollPoints : on_image_click(p)
    \/ OpsBudget /\ global_separation_tab1
    \/ OpsBudget /\ local_separation_tab1
    \/ OpsBudget /\ \E id \in KeySet(palettes_tab1) : toggle_palette_selection(id)
    \/ OpsBudget /\ \E id \in KeySet(palettes_tab1), n \in CollNames :
                       rename_palette_tab1(id, n)
    \/ OpsBudget /\ \E id \in KeySet(palettes_tab1) : delete_palette_tab1(id)
    \/ OpsBudget /\ \E l \in Orders(selected_palettes) : merge_selected_palettes(l)
    \/ OpsBudget /\ merge_all_palettes
    \/ OpsBudget /\ \E l \in Orders(selected_palettes) : xor_selected_palettes(l)
    \/ OpsBudget /\ clear_all_palettes_tab1
    \/ OpsBudget /\ \E id \in KeySet(palettes_tab1) : edit_palette_tab1(id)
    \/ save_changes
    \/ cancel

SpecColl == InitColl /\ [][NextColl]_vars

(***************************************************************************)
(* SpecMain: the commands of the main window on the palette collection,    *)
(* from its construction and without editor windows: the first commands    *)
(* of a session, accepted and rejected.                                    *)
(***************************************************************************)
MainMaxOps == 7
MainBudget == ops < MainMaxOps

NextMain ==
    \/ MainBudget /\ \E img \in CollImages : upload_image(img)
    \/ MainBudget /\ \E p \in CollPoints : on_image_click(p)
    \/ MainBudget /\ global_separation_tab1
    \/ MainBudget /\ local_separation_tab1
    \/ MainBudget /\ \E id \in KeySet(palettes_tab1) : toggle_palette_selection(id)
    \/ MainBudget /\ \E id \in KeySet(palettes_tab1), n \in CollNames :
                        rename_palette_tab1(id, n)
    \/ MainBudget /\ \E id \in KeySet(palettes_tab1) : delete_palette_tab1(id)
    \/ MainBudget /\ \E l \in Orders(selected_palettes) : merge_selected_palettes(l)
    \/ MainBudget /\ merge_all_palettes
    \/ MainBudget /\ \E l \in Orders(selected_palettes) : xor_selected_palettes(l)
    \/ MainBudget /\ clear_all_palettes_tab1

SpecMain == InitColl /\ [][NextMain]_vars

(***************************************************************************)
(* SpecAlg: the palette algebra.  The main window after one separation of  *)
(* a leaf, with a second leaf image of the same size whose interior has a  *)
(* pixel just under white, clicks on two interior pixels, separations,     *)
(* the palette checkboxes, a rename, merge-selected, merge-all and XOR.    *)
(* Palettes separated from the two images overlap with different colours.  *)
(***************************************************************************)
AlgW == 4
AlgH == 3
AlgMaxOps == 9
NearWhite == <<252, 252, 252>>
AlgImages == {Leaf(AlgW, AlgH, Red, Blue), Leaf(AlgW, AlgH, NearWhite, Red)}
AlgPoints == {<<1, 1>>, <<2, 1>>}
AlgNames == {"Merged_All_3"}
AlgBudget == ops < AlgMaxOps

InitAlg ==
    /\ MainAfterSeparation(Leaf(AlgW, AlgH, Red, Blue), <<1, 1>>)
    /\ EditorClosed
    /\ pushes = 0 /\ discarded = FALSE /\ edits = 0 /\ gesture_pushes = 0
    /\ replace_report = NoReport
    /\ last_fill = [seed |-> NoPoint, fill |-> NoColour, before |-> NoImage,
                    after |-> NoImage, filled |-> {}]

NextAlg ==
    \/ AlgBudget /\ \E img \in AlgImages : upload_image(img)
    \/ AlgBudget /\ \E p \in AlgPoints : on_image_click(p)
    \/ AlgBudget /\ global_separation_tab1
    \/ AlgBudget /\ \E id \in KeySet(palettes_tab1) : toggle_palette_selection(id)
    \/ AlgBudget /\ \E id \in KeySet(palettes_tab1), n \in AlgNames :
                       rename_palette_tab1(id, n)
    \/ AlgBudget /\ \E l \in Orders(selected_palettes) : merge_selected_palettes(l)
    \/ AlgBudget /\ merge_all_palettes
    \/ AlgBudget /\ \E l \in Orders(selected_palettes) : xor_selected_palettes(l)

SpecAlg == InitAlg /\ [][NextAlg]_vars

(***************************************************************************)
(* SpecRgb: the RGB panel of one editor session, on a palette that holds   *)
(* two close reds: Detect Colors, every selection of listbox rows, two     *)
(* replacement colours (one of them a colour of the palette), the          *)
(* tolerance slider set to 0, and Replace Colors.                          *)
(***************************************************************************)
RgbW == 4
RgbH == 3
RgbMaxEdits == 2
Crimson == <<210, 0, 0>>
RgbTargets == {Blue, Crimson}
RgbTolerances == {0}

InitRgb ==
    /\ MainAfterSeparation(Leaf(RgbW, RgbH, Crimson, Red), <<1, 1>>)
    /\ EditorAfterClicks(current_palette_id_tab1, 0)
    /\ PanelUntouched

NextRgb ==
    \/ detect_and_populate_colors
    \/ \E sel \in Rows : on_source_colors_select(sel)
    \/ \E c \in RgbTargets : choose_replacement_color(c)
    \/ \E t \in RgbTolerances : set_tolerance(t)
    \/ apply_rgb_replacement /\ Budget(RgbMaxEdits, RgbMaxEdits)

SpecRgb == InitRgb /\ [][NextRgb]_vars

(***************************************************************************)
(* LeafBoundaryTool (lines 816-868) and the boundary handlers of the main  *)
(* window (lines 1581-1622).  self.cv_image is the BGR copy of             *)
(* self.original_image made by upload_image, so the model reads            *)
(* original_image where the source reads cv_image.                         *)
(*                                                                         *)
(* The cv2 calls are modelled on sets of pixel positions:                  *)
(*  - cvtColor(.., COLOR_BGR2GRAY) is the fixed-point luma of OpenCV;      *)
(*  - morphologyEx runs dilations and erosions with the 5x5 elliptic       *)
(*    kernel, pixels outside the raster never constraining either;         *)
(*  - findContours(.., RETR_EXTERNAL, ..) gives one contour for every      *)
(*    8-connected component of non-zero pixels that touches the background *)
(*    connected to the outside of the raster: its pixels that have a       *)
(*    4-neighbour in that background;                                      *)
(*  - contourArea is the area of the polygon through the centres of the    *)
(*    contour pixels: one for every 2x2 block of pixels inside the         *)
(*    contour, a half for every 2x2 block with three pixels inside;        *)
(*  - drawContours with thickness 1 sets the contour pixels; thickness 2   *)
(*    is modelled as the contour pixels and their 4-neighbours.            *)
(***************************************************************************)
Black == <<0, 0, 0>>
BandTol == 15
MinArea == 10

\* cv2.cvtColor(self.original, cv2.COLOR_BGR2GRAY)
Gray(c) == (c[1] * 4899 + c[2] * 9617 + c[3] * 1868 + 8192) \div 16384
GrayOf(img) == [p \in PosOf(img) |-> Gray(img.px[p])]

\* the set S with its elements listed (the evaluator otherwise keeps unions
\* and differences unevaluated)
Listed(S) == {x : x \in S}

N4(p) == {<<p[1] - 1, p[2]>>, <<p[1] + 1, p[2]>>, <<p[1], p[2] - 1>>, <<p[1], p[2] + 1>>}
N8(p) == {<<p[1] + dx, p[2] + dy>> : dx \in -1..1, dy \in -1..1} \ {p}

\* cv2.getStructuringElement(cv2.MORPH_ELLIPSE, (5, 5)), as offsets from the anchor
Ellipse5 == {<<dx, dy>> : dx \in -2..2, dy \in -1..1} \cup {<<0, -2>>, <<0, 2>>}
Dilate(S, all) ==
    Listed({p \in all : \E d \in Ellipse5 : <<p[1] + d[1], p[2] + d[2]>> \in S})
Erode(S, all) ==
    Listed({p \in all : \A d \in Ellipse5 :
               LET q == <<p[1] + d[1], p[2] + d[2]>> IN q \notin all \/ q \in S})
\* cv2.morphologyEx(binary, cv2.MORPH_CLOSE, kernel, iterations=2)
MorphClose2(S, all) == Erode(Erode(Dilate(Dilate(S, all), all), all), all)
\* cv2.morphologyEx(binary, cv2.MORPH_OPEN, kernel, iterations=1)
MorphOpen1(S, all) == Dilate(Erode(S, all), all)

\* the pixels of S joined to the front by steps of the neighbourhood nb
RECURSIVE Grow(_, _, _, _)
Grow(S, front, seen, eight) ==
    IF front = {} THEN seen
    ELSE LET near == Listed(UNION {IF eight THEN N8(p) ELSE N4(p) : p \in front})
             nxt == Listed({q \in near : q \in S /\ q \notin seen})
         IN  Grow(S, nxt, Listed(seen \cup nxt), eight)
Component8(S, p) == Grow(Listed(S), {p}, {p}, TRUE)
Component4(S, p) == Grow(Listed(S), {p}, {p}, FALSE)
RECURSIVE Components8(_)
Components8(S) ==
    IF S = {} THEN {}
    ELSE LET p == CHOOSE q \in S : TRUE
             c == Component8(S, p)
         IN  {c} \cup Components8(Listed(S \ c))

\* the raster and the ring of positions around it
Padded(w, h) == (-1..w) \X (-1..h)
Ring(w, h) == Listed(Padded(w, h) \ Pos(w, h))
\* the background of S that is 4-connected to the outside of the raster
Outside(S, w, h) == Grow(Listed(Padded(w, h) \ S), Ring(w, h), Ring(w, h), FALSE)
\* the pixels an external contour of the component c passes through
ContourPixels(c, out) == Listed({p \in c : \E q \in N4(p) : q \in out})
\* cv2.findContours(.., cv2.RETR_EXTERNAL, cv2.CHAIN_APPROX_SIMPLE): the
\* components that have an external contour
FindContours(S, w, h) ==
    LET out == Outside(S, w, h)
    IN  {c \in Components8(S) : ContourPixels(c, out) # {}}
\* twice cv2.contourArea of the external contour of the component c
ContourArea2(c, w, h) ==
    LET inside == Listed(Pos(w, h) \ Outside(c, w, h))
        Corners(p) == {p, <<p[1] + 1, p[2]>>, <<p[1], p[2] + 1>>, <<p[1] + 1, p[2] + 1>>}
        In(p) == Cardinality(Corners(p) \cap inside)
    IN  2 * Cardinality({p \in inside : In(p) = 4})
          + Cardinality({p \in Padded(w, h) : In(p) = 3})
\* cv2.drawContours(.., [cnt], -1, colour, thickness): the pixels it sets
Stroke(c, S, w, h, thickness) ==
    LET line == ContourPixels(c, Outside(S, w, h))
    IN  IF thickness = 1 THEN line
        ELSE Listed((line \cup UNION {N4(p) : p \in line}) \cap Pos(w, h))

MaskOf(S, w, h) == [w |-> w, h |-> h, px |-> [p \in Pos(w, h) |-> IF p \in S THEN 255 ELSE 0]]
NonZero(mask) == {p \in PosOf(mask) : mask.px[p] > 0}
\* np.ones(..) * 255, then img[mask > 0] = [0, 0, 0]
BoundaryImg(mask) ==
    [w |-> mask.w, h |-> mask.h,
     px |-> [p \in PosOf(mask) |-> IF mask.px[p] > 0 THEN Black ELSE White]]

\* extract_boundaries, lines 832-843: the masks it can return (max() keeps
\* one of the contours of largest area)
ExtractBoundaries(img) ==
    LET all == PosOf(img)
        gray == GrayOf(img)
        binary == Listed({p \in all : gray[p] <= 200})
        opened == MorphOpen1(MorphClose2(binary, all), all)
        contours == FindContours(opened, img.w, img.h)
        largest == {c \in contours : \A d \in contours :
                        ContourArea2(d, img.w, img.h) <= ContourArea2(c, img.w, img.h)}
    IN  IF contours = {} THEN {MaskOf({}, img.w, img.h)}
        ELSE {MaskOf(Stroke(c, opened, img.w, img.h, 2), img.w, img.h) : c \in largest}

\* LeafBoundaryTool.__init__, lines 819-830, with the mask extract_boundaries returned
NewBoundaryTool(img, mask) ==
    [original |-> img, width |-> img.w, height |-> img.h,
     boundary_mask |-> mask,
     boundary_img |-> BoundaryImg(mask),
     original_boundary_mask |-> mask,
     original_boundary_img |-> BoundaryImg(mask)]

\* cv2.inRange(gray, lower, upper)
InRangeMask(tool, seed) ==
    LET gray == GrayOf(tool.original)
        lower == Max(0, gray[seed] - BandTol)
        upper == Min(255, gray[seed] + BandTol)
    IN  [p \in PosOf(tool.original) |-> IF lower <= gray[p] /\ gray[p] <= upper THEN 255 ELSE 0]
\* cv2.floodFill(mask, flood_mask, (x, y), 255): the pixels 4-connected to the
\* seed through pixels of the seed's value take the new value
FloodFill(m, seed, newVal) ==
    LET region == Component4({p \in DOMAIN m : m[p] = m[seed]}, seed)
    IN  [p \in DOMAIN m |-> IF p \in region THEN newVal ELSE m[p]]
\* the mask findContours is given at line 855
LocalMask(tool, seed) == FloodFill(InRangeMask(tool, seed), seed, 255)
\* lines 856-861: the pixels stroked by the contours of area > 10
LocalStrokes(tool, seed) ==
    LET m == LocalMask(tool, seed)
        S == Listed({p \in DOMAIN m : m[p] > 0})
        w == tool.width
        h == tool.height
    IN  Listed(UNION {Stroke(c, S, w, h, 1) :
                 c \in {d \in FindContours(S, w, h) : ContourArea2(d, w, h) > 2 * MinArea}})
\* cv2.drawContours(self.boundary_mask, [cnt], -1, 255, 1)
MaskAfterStrokes_None(mask, strokes) == mask
MaskAfterStrokes(mask, strokes) ==
    [mask EXCEPT !.px = [p \in PosOf(mask) |-> IF p \in strokes THEN 255 ELSE mask.px[p]]]
\* cv2.drawContours(self.boundary_img, [cnt], -1, (0, 0, 0), 1)
ImgAfterStrokes(img, strokes) ==
    [img EXCEPT !.px = [p \in PosOf(img) |-> IF p \in strokes THEN Black ELSE img.px[p]]]
\* extract_local_region, lines 845-863; gray[y, x] raises outside the raster
SeedInRaster(tool, seed) == seed \in PosOf(tool.original)
ExtractLocalRegion(tool, seed) ==
    LET strokes == LocalStrokes(tool, seed)
    IN  [tool EXCEPT !.boundary_img = ImgAfterStrokes(tool.boundary_img, strokes),
                     !.boundary_mask = MaskAfterStrokes(tool.boundary_mask, strokes)]
\* reset_boundaries, lines 865-868
ResetMask_Live(tool) == tool.boundary_mask
ResetMask(tool) == tool.original_boundary_mask
ResetBoundaries(tool) ==
    [tool EXCEPT !.boundary_mask = ResetMask(tool),
                 !.boundary_img = BoundaryImg(ResetMask(tool))]

bndUnchanged == <<original_image, selected_point, selected_rgb, palettes_tab1,
                  palette_counter_tab1, current_palette_id_tab1, threshold_tab1,
                  selected_palettes, fill_frame, edVars, runVars>>

\* extract_boundaries_tab2, lines 1581-1591
extract_boundaries_tab2 ==
    /\ ops' = ops + 1
    /\ UNCHANGED bndUnchanged
    /\ IF original_image = NoImage
       THEN UNCHANGED boundary_tool
       ELSE \E mask \in ExtractBoundaries(original_image) :
                boundary_tool' = NewBoundaryTool(original_image, mask)

\* local_extraction_tab2, lines 1593-1605
LocalExtractionRejected == boundary_tool = NoTool \/ selected_point = NoPoint
local_extraction_tab2 ==
    /\ ops' = ops + 1
    /\ UNCHANGED bndUnchanged
    /\ IF LocalExtractionRejected \/ ~SeedInRaster(boundary_tool, selected_point)
       THEN UNCHANGED boundary_tool
       ELSE boundary_tool' = ExtractLocalRegion(boundary_tool, selected_point)

\* reset_boundaries_tab2, lines 1618-1622
reset_boundaries_tab2 ==
    /\ ops' = ops + 1
    /\ UNCHANGED bndUnchanged
    /\ IF boundary_tool = NoTool
       THEN UNCHANGED boundary_tool
       ELSE boundary_tool' = ResetBoundaries(boundary_tool)

(***************************************************************************)
(* SpecBnd: the boundary tab.  Two images of different sizes, each two     *)
(* blocks of one colour separated by a white column; clicks on two pixels; *)
(* boundary extraction, local extraction and reset.                        *)
(***************************************************************************)
BndW == 11
BndH == 5
BndMaxOps == 7
Grey60 == <<60, 60, 60>>
TwoBlocks(w, h, c) ==
    [w |-> w, h |-> h, px |-> [p \in Pos(w, h) |-> IF p[1] = w \div 2 THEN White ELSE c]]
BndSmall == TwoBlocks(BndW, BndH, Grey60)
BndLarge == TwoBlocks(BndW + 2, BndH, Grey60)
BndImages == {BndSmall, BndLarge}
BndPoints == {<<1, 2>>, <<BndW + 1, 2>>}
BndBudget == ops < BndMaxOps

InitBnd == InitColl

NextBnd ==
    \/ BndBudget /\ \E img \in BndImages : upload_image(img)
    \/ BndBudget /\ \E p \in BndPoints : on_image_click(p)
    \/ BndBudget /\ extract_boundaries_tab2
    \/ BndBudget /\ local_extraction_tab2
    \/ BndBudget /\ reset_boundaries_tab2

SpecBnd == InitBnd /\ [][NextBnd]_vars


(***************************************************************************)
(* SpecUndo: one editor session with two pixel-changing operations and     *)
(* undo and redo between them: strokes, lines, fills and a bulk            *)
(* replacement, on a leaf whose interior has one colour.                   *)
(***************************************************************************)
UndoMaxPushes == 2
UndoMaxEdits == 2
UndoPoints == {<<0, 1>>, <<1, 1>>}

InitUndo ==
    /\ MainAfterTwoSeparations(Leaf(EdW, EdH, Red, Red), <<1, 1>>)
    /\ EditorAfterClicks(palettes_tab1[1].id, 0)
    /\ PanelReady(Blue)

NextUndo ==
    \/ \E t \in Tools : select_tool(t)
    \/ \E p \in UndoPoints : on_mouse_down(p) /\ Budget(UndoMaxPushes, UndoMaxEdits)
    \/ \E p \in UndoPoints : on_mouse_drag(p) /\ Budget(UndoMaxPushes, UndoMaxEdits)
    \/ \E p \in UndoPoints : on_mouse_up(p) /\ Budget(UndoMaxPushes, UndoMaxEdits)
    \/ undo
    \/ redo
    \/ apply_rgb_replacement /\ Matched /\ Budget(UndoMaxPushes, UndoMaxEdits)

SpecUndo == InitUndo /\ [][NextUndo]_vars

(***************************************************************************)
(* The loop of fill_enclosed_area (lines 764-781) one iteration at a time. *)
(* fill_frame holds the locals of the call: img_array (px), visited,       *)
(* stack (its top is the last element), target_color, fill_color and       *)
(* pixels_filled; writes counts the assignments of line 778 to each pixel. *)
(* The stack gains four entries per recoloured pixel; the guard on its     *)
(* length keeps the states finite and never binds while every pixel is     *)
(* recoloured at most once.                                                *)
(***************************************************************************)
StackLimit(w, h) == 4 * w * h + 1

\* lines 754-767, for a call that passes the early returns
FrameAtLoop(img, seed, fill) ==
    [pc |-> "loop", input |-> img, seed |-> seed, w |-> img.w, h |-> img.h,
     px |-> img.px, visited |-> {}, stack |-> <<seed>>,
     target_color |-> img.px[seed], fill_color |-> fill, pixels_filled |-> 0,
     writes |-> [p \in PosOf(img) |-> 0]]

\* a faulty variant: no pixel counts as visited
AlreadyVisited_Never(f, c) == FALSE
\* line 772: if visited[cy, cx]
AlreadyVisited(f, c) == c \in f.visited

\* lines 770-776: the three continue statements
Skipped(f, c) ==
    \/ c[1] < 0 \/ c[1] >= f.w \/ c[2] < 0 \/ c[2] >= f.h
    \/ AlreadyVisited(f, c)
    \/ ~WithinTol(f.px[c], f.target_color, FillTolerance)

frameUnchanged == <<original_image, selected_point, selected_rgb, palettes_tab1,
                    palette_counter_tab1, current_palette_id_tab1, threshold_tab1,
                    selected_palettes, boundary_tool, ops, edVars, runVars>>

\* one iteration of the while loop, lines 768-781
fill_iteration ==
    /\ fill_frame.pc = "loop"
    /\ fill_frame.stack # <<>>
    /\ Len(fill_frame.stack) <= StackLimit(fill_frame.w, fill_frame.h)
    /\ LET f == fill_frame
           c == f.stack[Len(f.stack)]
           rest == SubSeq(f.stack, 1, Len(f.stack) - 1)
       IN  fill_frame' =
             IF Skipped(f, c) THEN [f EXCEPT !.stack = rest]
             ELSE [f EXCEPT !.visited = f.visited \cup {c},
                            !.px = [f.px EXCEPT ![c] = f.fill_color],
                            !.writes = [f.writes EXCEPT ![c] = f.writes[c] + 1],
                            !.pixels_filled = f.pixels_filled + 1,
                            !.stack = rest \o << <<c[1] + 1, c[2]>>, <<c[1] - 1, c[2]>>,
                                                 <<c[1], c[2] + 1>>, <<c[1], c[2] - 1>> >>]
    /\ UNCHANGED frameUnchanged

\* the loop condition found false, line 768: the loop is left
fill_loop_exit ==
    /\ fill_frame.pc = "loop"
    /\ fill_frame.stack = <<>>
    /\ fill_frame' = [fill_frame EXCEPT !.pc = "done"]
    /\ UNCHANGED frameUnchanged

(***************************************************************************)
(* SpecFill: every fill call that passes the early returns, on a leaf with *)
(* a red interior, on one with a pale interior (within 30 of the white     *)
(* frame) and on a raster that is red all over, from every seed, with a    *)
(* fill colour within 30 of red and one far from it.  SpecFillFair adds    *)
(* that a loop that can take a step does.                                  *)
(***************************************************************************)
Solid(w, h, c) == [w |-> w, h |-> h, px |-> [p \in Pos(w, h) |-> c]]
FillImages == {Leaf(EdW, EdH, Red, Red), Leaf(EdW, EdH, Pale, Red), Solid(EdW, EdH, Red)}
FillColours == {Crimson, Blue}

InitFill ==
    /\ NoEditorYet
    /\ \E img \in FillImages : \E seed \in PosOf(img) : \E fill \in FillColours :
          /\ ~FillRejected(img, seed, fill)
          /\ fill_frame = FrameAtLoop(img, seed, fill)

NextFill == fill_iteration \/ fill_loop_exit

SpecFill == InitFill /\ [][NextFill]_vars
SpecFillFair == SpecFill /\ WF_vars(NextFill)

(***************************************************************************)
(* C1: in every state of an editor session the history holds at most 15    *)
(* snapshots and the cursor indexes one of them.                           *)
(***************************************************************************)
C1_HistoryBounded ==
    ed_open => /\ Len(history) <= 15
               /\ 0 <= history_index
               /\ history_index < Len(history)

\* the history is full after an eviction and the cursor is on its last snapshot
C1_Witness ==
    ed_open /\ pushes > 15 /\ Len(history) = 15 /\ history_index = 14


(***************************************************************************)
(* C2 as stated: in every state with no gesture in progress, undo followed *)
(* by redo leaves the cursor and the current image as they were.           *)
(***************************************************************************)
AtRest == ed_open /\ ~drawing
UndoThenRedo ==
    LET u == UndoResult(history, history_index, palette_image)
    IN  RedoResult(history, u.idx, u.img)
C2_UndoRedoAnyState ==
    AtRest => /\ UndoThenRedo.idx = history_index
              /\ UndoThenRedo.img = palette_image

(***************************************************************************)
(* C2 amended: in every state with no gesture in progress and the cursor   *)
(* past the first snapshot, undo followed by redo leaves the cursor and    *)
(* the current image as they were.                                         *)
(***************************************************************************)
C2_UndoRedoPastFirst ==
    (AtRest /\ history_index > 0) =>
        /\ UndoThenRedo.idx = history_index
        /\ UndoThenRedo.img = palette_image

\* undo applies, and the snapshot it moves to differs from the current image
C2_Witness ==
    /\ AtRest /\ history_index > 0
    /\ UndoResult(history, history_index, palette_image).img # palette_image

(***************************************************************************)
(* C3 as stated: after more than 15 pushes in the session the history      *)
(* holds exactly 15 snapshots.                                             *)
(***************************************************************************)
C3_FullAfterFifteenPushes ==
    (ed_open /\ pushes > 15) => Len(history) = 15

(***************************************************************************)
(* C3 amended: after more than 15 pushes, none of which dropped snapshots  *)
(* forward of the cursor, the history holds exactly 15 snapshots; a push   *)
(* onto a full history evicts the oldest snapshot from the front and       *)
(* leaves the cursor on the last one; the cursor never exceeds 14 and      *)
(* only ever falls by one, so at most 14 consecutive undos change it.      *)
(***************************************************************************)
OverflowPush ==
    /\ ed_open /\ pushes' = pushes + 1
    /\ Len(history) = 15 /\ history_index = 14
C3_OverflowEvictsOldest ==
    /\ []((ed_open /\ pushes > 15 /\ ~discarded) => Len(history) = 15)
    /\ [](ed_open => history_index <= 14)
    /\ [][OverflowPush => /\ history' = Tail(history) \o <<palette_image'>>
                          /\ Len(history') = 15
                          /\ history_index' = 14]_vars
    /\ [][(ed_open /\ ed_open' /\ history_index' < history_index)
             => history_index' = history_index - 1]_vars

\* more than 15 pushes, then 14 undos: the cursor is on the oldest of the 15
\* snapshots kept, which is not the image the session started from
C3_Witness ==
    /\ ed_open /\ pushes > 15 /\ ~discarded
    /\ Len(history) = 15 /\ history_index = 0
    /\ history[15] # history[1]

(***************************************************************************)
(* C4: a push made with snapshots forward of the cursor discards them:     *)
(* afterwards the history is the old one up to the old cursor plus the     *)
(* pushed image, the cursor is on that last snapshot, and redo does        *)
(* nothing.                                                                *)
(***************************************************************************)
PushAfterUndo ==
    /\ ed_open /\ pushes' = pushes + 1
    /\ history_index < Len(history) - 1
C4_PushDiscardsForward ==
    [][PushAfterUndo =>
          /\ Len(history') = history_index + 2
          /\ SubSeq(history', 1, history_index + 1)
                = SubSeq(history, 1, history_index + 1)
          /\ history'[Len(history')] = palette_image'
          /\ history_index' = Len(history') - 1
          /\ RedoResult(history', history_index', palette_image')
                = [idx |-> history_index', img |-> palette_image']]_vars

\* a push has discarded forward snapshots and the cursor is on the pushed one,
\* which differs from the snapshot before it
C4_Witness ==
    /\ ed_open /\ discarded /\ Len(history) < 15 /\ Len(history) > 1
    /\ history_index = Len(history) - 1
    /\ history[Len(history)] # history[Len(history) - 1]


(***************************************************************************)
(* C5: a press pushes one snapshot exactly when it is a fill that filled   *)
(* some pixel, a drag pushes none, and at the release of a terminal        *)
(* gesture (a pencil or eraser stroke, a line, a fill that filled some     *)
(* pixel) the handlers have pushed exactly one snapshot since the press,   *)
(* so a fill click and its release push one in total.                      *)
(***************************************************************************)
Press == ed_open /\ ~drawing /\ drawing'
Drag == ed_open /\ drawing /\ drawing'
Release == ed_open /\ drawing /\ ~drawing'
FillCompleted == current_tool = "fill" /\ last_fill'.filled # {}
TerminalGesture == current_tool # "fill" \/ FillCompleted
C5_OnePushPerGesture ==
    /\ [][Press => pushes' = pushes + (IF FillCompleted THEN 1 ELSE 0)]_vars
    /\ [][Drag => pushes' = pushes /\ history' = history]_vars
    /\ [][(Release /\ TerminalGesture) => gesture_pushes' = 1]_vars
    /\ [][(Release /\ ~TerminalGesture) => gesture_pushes' = 0]_vars

\* a fill click that filled the region, released: one snapshot pushed
C5_Witness ==
    /\ ed_open /\ ~drawing /\ current_tool = "fill"
    /\ last_fill.filled # {} /\ edits = 1
    /\ pushes = 1 /\ gesture_pushes = 1 /\ Len(history) = 2

(***************************************************************************)
(* C6 as stated: after every step of a pointer handler that changes the    *)
(* image or the edit layer (a pencil or eraser drag, a line, a fill) the   *)
(* current image is the alpha-over composite of the base palette and the   *)
(* edit layer.                                                             *)
(***************************************************************************)
MutatingGesture ==
    /\ ed_open /\ (drawing \/ drawing')
    /\ palette_image' # palette_image \/ edit_layer' # edit_layer
C6_ImageIsComposite ==
    [][MutatingGesture => palette_image' = CompositeImage(original_palette', edit_layer')]_vars

(***************************************************************************)
(* C7 as stated: when the image before the fill is one non-white colour C  *)
(* inside a frame of white pixels, the click is inside and the fill colour *)
(* differs from C, the fill changes exactly the pixels of the region to    *)
(* the fill colour and leaves every other pixel as it was.                 *)
(***************************************************************************)
Frame(img) == {p \in PosOf(img) : OnFrame(img.w, img.h, p)}
Enclosed(img, p) ==
    /\ p \in Interior(img.w, img.h)
    /\ ~IsWhite(img.px[p])
    /\ \A q \in Interior(img.w, img.h) : img.px[q] = img.px[p]
    /\ \A q \in Frame(img) : IsWhite(img.px[q])
FilledExactlyRegion(f) ==
    /\ f.filled = Interior(f.before.w, f.before.h)
    /\ \A q \in Interior(f.before.w, f.before.h) : f.after.px[q] = f.fill
    /\ \A q \in Frame(f.before) : f.after.px[q] = f.before.px[q]
FillInsideRegion(f) ==
    /\ f.seed # NoPoint
    /\ Enclosed(f.before, f.seed)
    /\ f.fill # f.before.px[f.seed]
C7_FillExactlyRegion ==
    (ed_open /\ FillInsideRegion(last_fill)) => FilledExactlyRegion(last_fill)

(***************************************************************************)
(* The fill does change exactly the region when C differs from each pixel *)
(* of the white frame by more than 30 in some channel.                     *)
(***************************************************************************)
FarFromFrame(img, p) ==
    \A q \in Frame(img) : ~WithinTol(img.px[q], img.px[p], FillTolerance)
FillExactFarFromWhite ==
    (ed_open /\ FillInsideRegion(last_fill) /\ FarFromFrame(last_fill.before, last_fill.seed))
        => FilledExactlyRegion(last_fill)

(***************************************************************************)
(* C8: a step of the editor that is not the commit leaves the palette      *)
(* collection as it was; the commit stores the editor's current image      *)
(* under the editor's palette id and leaves the ids, their order and       *)
(* every other raster as they were.                                        *)
(***************************************************************************)
Commit == ed_open /\ save_changes
C8_CollectionUntilCommit ==
    /\ [][(ed_open /\ ~Commit) => palettes_tab1' = palettes_tab1]_vars
    /\ [][Commit => /\ Keys(palettes_tab1') = Keys(palettes_tab1)
                    /\ Get(palettes_tab1', palette_id) = palette_image
                    /\ \A id \in KeySet(palettes_tab1) \ {palette_id} :
                          Get(palettes_tab1', id) = Get(palettes_tab1, id)]_vars

\* an edited image was committed: the first palette changed, the second did not
C8_Witness ==
    /\ ~ed_open /\ edits > 0
    /\ palettes_tab1[1].img # palettes_tab1[2].img
    /\ palettes_tab1[2].img = Separated(original_image, selected_rgb, DefaultThreshold)


(***************************************************************************)
(* C9 as stated: whenever a source image is loaded, every palette raster   *)
(* of the collection has its width and height.                             *)
(***************************************************************************)
C9_PalettesMatchSource ==
    original_image # NoImage =>
        \A i \in 1..Len(palettes_tab1) : SameSize(palettes_tab1[i].img, original_image)

AlgebraCall ==
    \/ merge_all_palettes
    \/ \E l \in Orders(selected_palettes) : merge_selected_palettes(l)
    \/ \E l \in Orders(selected_palettes) : xor_selected_palettes(l)

\* the call got past its validation and its numpy indexing: it took a number
Completed == palette_counter_tab1' = palette_counter_tab1 + 1

C11_AlgebraLeavesInputs ==
    [][(AlgebraCall /\ Completed) =>
          /\ original_image' = original_image
          /\ Len(palettes_tab1') = Len(palettes_tab1) + 1
          /\ \A k \in 1..Len(palettes_tab1) : palettes_tab1'[k] = palettes_tab1[k]]_vars

(***************************************************************************)
(* C12: merge-all over the collection P1, ..., Pn (n >= 2, in collection   *)
(* order) stores the left fold of mergeTwo, where mergeTwo(A, B) takes B's *)
(* pixel wherever B is not white (255, 255, 255) and A's pixel elsewhere;  *)
(* for three palettes that is mergeTwo(mergeTwo(P1, P2), P3), and          *)
(* mergeTwo(A, A) = A.                                                     *)
(***************************************************************************)
Overlay(a, b) ==
    [w |-> a.w, h |-> a.h,
     px |-> [p \in PosOf(a) |-> IF b.px[p] = White THEN a.px[p] ELSE b.px[p]]]
RECURSIVE LeftFold(_, _)
LeftFold(d, n) == IF n = 1 THEN d[1].img ELSE Overlay(LeftFold(d, n - 1), d[n].img)

MergedAllId(n) == "Merged_All_" \o ToString(n)

C12_MergeAllIsLeftFold ==
    [][(merge_all_palettes /\ Completed) =>
          LET d == palettes_tab1
              r == Get(palettes_tab1', MergedAllId(palette_counter_tab1'))
          IN  /\ Len(d) >= 2
              /\ r = LeftFold(d, Len(d))
              /\ Len(d) = 3 => r = Overlay(Overlay(d[1].img, d[2].img), d[3].img)
              /\ \A k \in 1..Len(d) : Overlay(d[k].img, d[k].img) = d[k].img]_vars

\* merge-all has run over three palettes whose fold in the opposite order
\* gives another raster
C12_Witness ==
    /\ Len(palettes_tab1) = 4
    /\ palettes_tab1[4].id = MergedAllId(palette_counter_tab1)
    /\ LET d == palettes_tab1
       IN  /\ d[4].img = Overlay(Overlay(d[1].img, d[2].img), d[3].img)
           /\ d[4].img # Overlay(Overlay(d[3].img, d[2].img), d[1].img)

(***************************************************************************)
(* C13 as stated: the raster merge-selected stores is fixed by the         *)
(* selection: whichever order the selected palettes are folded in by one   *)
(* run or another, the merged raster is the same, also when the selected   *)
(* palettes overlap in non-white pixels.                                   *)
(***************************************************************************)
C13_MergeSelectedReproducible ==
    \A l1 \in Orders(selected_palettes), l2 \in Orders(selected_palettes) :
        (~MergeSelectedRejected(selected_palettes) /\ Mergeable(palettes_tab1, l1))
            => MergeList(palettes_tab1, l1) = MergeList(palettes_tab1, l2)

(***************************************************************************)
(* C14: the raster XOR stores for a selection of palettes is white at the  *)
(* pixels where at least one selected palette is not white, and equals the *)
(* source image at every other pixel.                                      *)
(***************************************************************************)
XorId(n) == "XOR_Selected_" \o ToString(n)
Occupied(d, ids, p) == \E id \in ids : Get(d, id).px[p] # White

C14_XorWhitensOccupancy ==
    [][((\E l \in Orders(selected_palettes) : xor_selected_palettes(l)) /\ Completed) =>
          LET r == Get(palettes_tab1', XorId(palette_counter_tab1'))
          IN  /\ SameSize(r, original_image)
              /\ \A p \in PosOf(original_image) :
                    r.px[p] = IF Occupied(palettes_tab1, selected_palettes, p)
                              THEN White ELSE original_image.px[p]]_vars

\* XOR has run: its raster has a whitened pixel that is coloured in the
\* source and a coloured pixel that it kept from the source
C14_Witness ==
    /\ Len(palettes_tab1) >= 2
    /\ palettes_tab1[Len(palettes_tab1)].id = XorId(palette_counter_tab1)
    /\ LET r == palettes_tab1[Len(palettes_tab1)].img
       IN  /\ SameSize(r, original_image)
           /\ \E p \in PosOf(r) : r.px[p] = White /\ original_image.px[p] # White
           /\ \E p \in PosOf(r) : r.px[p] # White /\ r.px[p] = original_image.px[p]

(***************************************************************************)
(* C15 as stated, for the algebra: merge-all and XOR test for background   *)
(* with the definition colour detection and fill use, every channel        *)
(* greater than 250, so that a palette pixel such as (252, 252, 252) is    *)
(* background: it never overwrites the pixel under it in a merge and never *)
(* whitens the source in an XOR.                                           *)
(***************************************************************************)
OverlayAbove250(a, b) ==
    [w |-> a.w, h |-> a.h,
     px |-> [p \in PosOf(a) |-> IF IsWhite(b.px[p]) THEN a.px[p] ELSE b.px[p]]]
RECURSIVE LeftFoldAbove250(_, _)
LeftFoldAbove250(d, n) ==
    IF n = 1 THEN d[1].img ELSE OverlayAbove250(LeftFoldAbove250(d, n - 1), d[n].img)

C15_WhiteIsAbove250 ==
    [][/\ (merge_all_palettes /\ Completed) =>
             Get(palettes_tab1', MergedAllId(palette_counter_tab1'))
                 = LeftFoldAbove250(palettes_tab1, Len(palettes_tab1))
       /\ ((\E l \in Orders(selected_palettes) : xor_selected_palettes(l)) /\ Completed) =>
             \A p \in PosOf(original_image) :
                 Get(palettes_tab1', XorId(palette_counter_tab1')).px[p]
                     = IF \E id \in selected_palettes :
                              ~IsWhite(Get(palettes_tab1, id).px[p])
                       THEN White ELSE original_image.px[p]]_vars

(***************************************************************************)
(* C17: a local separation changes only the current palette, and only at   *)
(* the pixels of the colour-tolerance mask, which take the source image's  *)
(* values; every other pixel of that palette and every other palette stay  *)
(* as they were, and a second application with the same colour and         *)
(* tolerance changes nothing.                                              *)
(***************************************************************************)
LocalCall == local_separation_tab1 /\ Len(palettes_tab1) > 0 /\ selected_rgb # NoColour

C17_LocalSeparationIsLocal ==
    [][LocalCall =>
          LET d    == palettes_tab1
              cur  == IF current_palette_id_tab1 = None THEN d[Len(d)].id
                      ELSE current_palette_id_tab1
              old  == Get(d, cur)
              new  == Get(palettes_tab1', cur)
              mask == IF original_image # NoImage /\ SameSize(old, original_image)
                      THEN SeparationMask(original_image, selected_rgb, threshold_tab1)
                      ELSE {}
          IN  /\ Keys(palettes_tab1') = Keys(d)
              /\ \A k \in 1..Len(d) : d[k].id # cur => palettes_tab1'[k] = d[k]
              /\ SameSize(new, old)
              /\ \A p \in PosOf(old) :
                    new.px[p] = IF p \in mask THEN original_image.px[p] ELSE old.px[p]
              /\ mask # {} =>
                    LocallySeparated(new, original_image, selected_rgb, threshold_tab1) = new]_vars

\* a palette created by a separation of one colour holds both colours of
\* the leaf: a local separation has added the second to it
C17_Witness ==
    \E k \in 1..Len(palettes_tab1) :
        /\ palettes_tab1[k].id \in {SeparationId(Red, 1), SeparationId(Blue, 1)}
        /\ \E p, q \in PosOf(palettes_tab1[k].img) :
              palettes_tab1[k].img.px[p] = Red /\ palettes_tab1[k].img.px[q] = Blue

(***************************************************************************)
(* C18 as stated: colour detection returns one entry per exact RGB value   *)
(* among the non-white pixels (white: every channel > 250) with its pixel  *)
(* count, ordered by count descending, and entries with equal counts       *)
(* appear in the order in which their colours are first seen in the raster.*)
(***************************************************************************)
Above250(c) == c[1] > 250 /\ c[2] > 250 /\ c[3] > 250
ColouredPixels(img) == {p \in PosOf(img) : ~Above250(img.px[p])}
\* the row-major index of the first pixel of colour c
FirstSeen(img, c) ==
    LET at == {p[2] * img.w + p[1] : p \in {q \in PosOf(img) : img.px[q] = c}}
    IN  CHOOSE i \in at : \A j \in at : i <= j

Detection == detect_and_populate_colors /\ ColouredPixels(palette_image) # {}

CountedByColour(l, img) ==
    /\ {l[k][1] : k \in 1..Len(l)} = {img.px[p] : p \in ColouredPixels(img)}
    /\ \A i, j \in 1..Len(l) : l[i][1] = l[j][1] => i = j
    /\ \A k \in 1..Len(l) : l[k][2] = Cardinality({p \in PosOf(img) : img.px[p] = l[k][1]})
    /\ \A i, j \in 1..Len(l) : i < j => l[i][2] >= l[j][2]

RECURSIVE SumCounts(_)
SumCounts(l) == IF l = <<>> THEN 0 ELSE l[1][2] + SumCounts(Tail(l))

\* the list is the detection of the current image, every row of it is
\* selected, a target is chosen and the tolerance is 0
FullSelectionAtZero ==
    /\ tolerance_var = 0
    /\ Len(unique_colors_list) > 0
    /\ CountedByColour(unique_colors_list, palette_image)
    /\ selected_rgb_to_replace =
          [k \in 1..Len(unique_colors_list) |-> unique_colors_list[k][1]]
    /\ replacement_rgb # NoColour

ReplacedEverything ==
    /\ \A p \in ColouredPixels(palette_image) : palette_image'.px[p] = replacement_rgb
    /\ replace_report'.total = SumCounts(unique_colors_list)

C19_FullReplaceAnyTarget ==
    [][(apply_rgb_replacement /\ FullSelectionAtZero) => ReplacedEverything]_vars

(***************************************************************************)
(* C19: the same, for every target colour that is not one of the source    *)
(* colours after the first: the pixels turned into the target are matched  *)
(* and counted again when the loop reaches the target as a source.         *)
(***************************************************************************)
TargetIsLaterSource ==
    \E k \in 2..Len(selected_rgb_to_replace) : selected_rgb_to_replace[k] = replacement_rgb

C19_FullReplaceFreshTarget ==
    [][(apply_rgb_replacement /\ FullSelectionAtZero /\ ~TargetIsLaterSource)
          => ReplacedEverything]_vars

\* a replacement at tolerance 0 has turned the two colours of the palette
\* into one and reported both pixel counts
C19_Witness ==
    /\ ed_open /\ tolerance_var = 0
    /\ Len(history) = 2 /\ history_index = 1
    /\ Cardinality({history[1].px[p] : p \in ColouredPixels(history[1])}) = 2
    /\ \A p \in ColouredPixels(history[1]) : palette_image.px[p] = Blue
    /\ replace_report = Report("done", Cardinality(ColouredPixels(history[1])))

(***************************************************************************)
(* C20: a bulk replacement called with no source colour selected, with no  *)
(* target colour chosen, or whose masks match no pixel leaves the editor's *)
(* current image, the history list and the history cursor as they were.    *)
(***************************************************************************)
NoPixelMatches ==
    \A k \in 1..Len(selected_rgb_to_replace) : \A p \in PosOf(palette_image) :
        \E i \in 1..3 :
            Abs(palette_image.px[p][i] - selected_rgb_to_replace[k][i]) > tolerance_var

NothingToReplace ==
    \/ selected_rgb_to_replace = NoList
    \/ replacement_rgb = NoColour
    \/ NoPixelMatches

C20_EmptyReplacementMutatesNothing ==
    [][(apply_rgb_replacement /\ NothingToReplace)
          => UNCHANGED <<palette_image, history, history_index>>]_vars

\* after one replacement, a second one with a source colour that is no
\* longer in the image has reported that nothing matched
C20_Witness ==
    /\ ed_open
    /\ replace_report.outcome = "no_match"
    /\ Len(history) = 2
    /\ Len(selected_rgb_to_replace) > 0 /\ replacement_rgb # NoColour

(***************************************************************************)
(* C21: reset puts the live mask and the live image of the boundary tool   *)
(* back to the baseline mask and image, which are the live ones of the     *)
(* moment of the extraction; local extraction and reset leave the          *)
(* baseline mask and image as they are.                                    *)
(***************************************************************************)
HasTool == boundary_tool # NoTool
Baseline(tool) == <<tool.original_boundary_mask, tool.original_boundary_img>>
Live(tool) == <<tool.boundary_mask, tool.boundary_img>>
C21_ResetRestoresBaseline ==
    [][/\ (extract_boundaries_tab2 /\ original_image # NoImage)
            => Baseline(boundary_tool') = Live(boundary_tool')
       /\ (HasTool /\ (local_extraction_tab2 \/ reset_boundaries_tab2))
            => Baseline(boundary_tool') = Baseline(boundary_tool)
       /\ (HasTool /\ reset_boundaries_tab2)
            => Live(boundary_tool') = Baseline(boundary_tool)]_vars
\* local extraction has stroked pixels that the baseline does not have
C21_Witness == HasTool /\ Live(boundary_tool) # Baseline(boundary_tool)

(***************************************************************************)
(* C22: whenever a boundary tool exists, its live image is black exactly   *)
(* at the pixels where its live mask is non-zero and white at every other  *)
(* pixel.                                                                  *)
(***************************************************************************)
PixelConsistent(tool) ==
    /\ SameSize(tool.boundary_img, tool.boundary_mask)
    /\ \A p \in PosOf(tool.boundary_mask) :
          tool.boundary_img.px[p] = (IF tool.boundary_mask.px[p] # 0 THEN Black ELSE White)
C22_ImageMatchesMask == HasTool => PixelConsistent(boundary_tool)
\* a local extraction has added strokes to an extracted boundary
C22_Witness ==
    /\ HasTool
    /\ NonZero(boundary_tool.original_boundary_mask) # {}
    /\ NonZero(boundary_tool.boundary_mask) # NonZero(boundary_tool.original_boundary_mask)

(***************************************************************************)
(* C23: local extraction and reset run on a boundary tool that was built   *)
(* from the image that is loaded now, and the seed that local extraction   *)
(* passes to the tool is a pixel of the tool's raster.                     *)
(***************************************************************************)
ToolOfLoadedImage == boundary_tool.original = original_image
C23_ToolBelongsToImage ==
    [][/\ (local_extraction_tab2 /\ ~LocalExtractionRejected)
            => ToolOfLoadedImage /\ SeedInRaster(boundary_tool, selected_point)
       /\ (reset_boundaries_tab2 /\ HasTool) => ToolOfLoadedImage]_vars

(***************************************************************************)
(* C24: the pixels a local extraction adds to the live mask and blackens   *)
(* in the live image all belong to the region that is 4-connected to the   *)
(* seed through pixels whose intensity is within 15 of the seed's.         *)
(***************************************************************************)
SeedRegion(tool, seed) ==
    LET gray == GrayOf(tool.original)
    IN  Component4({p \in PosOf(tool.original) : Abs(gray[p] - gray[seed]) <= BandTol}, seed)
AddedToMask == NonZero(boundary_tool'.boundary_mask) \ NonZero(boundary_tool.boundary_mask)
Blackened ==
    {p \in PosOf(boundary_tool.boundary_img) :
        boundary_tool'.boundary_img.px[p] = Black /\ boundary_tool.boundary_img.px[p] # Black}
C24_OnlySeedRegionStroked ==
    [][(/\ local_extraction_tab2
        /\ ~LocalExtractionRejected
        /\ SeedInRaster(boundary_tool, selected_point))
          => (AddedToMask \cup Blackened) \subseteq SeedRegion(boundary_tool, selected_point)]_vars

(***************************************************************************)
(* C25: in every state the selection holds only ids of palettes of the     *)
(* collection, and the current palette id is unset or the id of a palette  *)
(* of the collection.                                                      *)
(***************************************************************************)
SelectionInCollection == selected_palettes \subseteq KeySet(palettes_tab1)
CurrentInCollection ==
    current_palette_id_tab1 = None \/ Has(palettes_tab1, current_palette_id_tab1)
C25_IdsInCollection == SelectionInCollection /\ CurrentInCollection
\* a palette is checked while another palette, renamed before, is current
C25_Witness ==
    /\ selected_palettes # {}
    /\ current_palette_id_tab1 = "leaf"
    /\ Len(palettes_tab1) >= 2

(***************************************************************************)
(* C26: a commit of the editor leaves the set of ids of the collection as  *)
(* it was: the id it stores under is an id the collection already has.     *)
(***************************************************************************)
C26_CommitAddsNoId ==
    [][Commit => /\ Has(palettes_tab1, palette_id)
                 /\ KeySet(palettes_tab1') = KeySet(palettes_tab1)]_vars

(***************************************************************************)
(* C27: a pencil or eraser drag and the release of a line change the       *)
(* current image only inside the footprint of the segment they draw: what  *)
(* the image showed outside it (the snapshot an undo went back to, a fill, *)
(* a bulk replacement) stays.                                              *)
(***************************************************************************)
KeptOutside(footprint) ==
    \A s \in PosOf(palette_image) \ footprint : palette_image'.px[s] = palette_image.px[s]
C27_StrokeKeepsTheRest ==
    [][\A q \in PosOf(palette_image) :
         /\ (on_mouse_drag(q) /\ current_tool \in {"pencil", "eraser"} /\ last_xy # NoPoint)
               => KeptOutside(LineFootprint(palette_image, last_xy, q))
         /\ (on_mouse_up(q) /\ current_tool = "line" /\ temp_line_start # NoPoint)
               => KeptOutside(LineFootprint(palette_image, temp_line_start, q))]_vars

(***************************************************************************)
(* C28: whenever no gesture is in progress, and during the gesture of a    *)
(* fill click, the current image of the editor equals the history          *)
(* snapshot at the cursor.                                                 *)
(***************************************************************************)
SnapshotAtCursor == history[history_index + 1]
C28_ImageIsSnapshotAtRest ==
    (ed_open /\ (~drawing \/ current_tool = "fill")) => palette_image = SnapshotAtCursor
\* an undo went back from the snapshot of a second operation
C28_Witness ==
    /\ AtRest /\ edits = 2
    /\ history_index = 1 /\ Len(history) = 3
    /\ palette_image # history[3]

(***************************************************************************)
(* C29: the raster of a bulk replacement has the target colour at every    *)
(* pixel that is within the tolerance of some source colour in the input   *)
(* and the input's colour at every other pixel, whatever the order of the  *)
(* source colours; it is checked at every bulk replacement that reaches    *)
(* the loop, for the tolerance of the step and for a tolerance of 10       *)
(* (under which (200,0,0) and (210,0,0) match each other's pixels).        *)
(***************************************************************************)
SourceSet == {selected_rgb_to_replace[i] : i \in 1..Len(selected_rgb_to_replace)}
ReplacedWhereAnyMatches(img, sources, target, tol) ==
    [img EXCEPT !.px = [p \in PosOf(img) |->
        IF \E c \in sources : WithinTol(img.px[p], c, tol) THEN target ELSE img.px[p]]]
ReachesLoop ==
    /\ apply_rgb_replacement
    /\ Len(selected_rgb_to_replace) > 0 /\ replacement_rgb # NoColour
C29_RasterIgnoresOrder ==
    [][ReachesLoop =>
         /\ palette_image' = ReplacedWhereAnyMatches(palette_image, SourceSet,
                                                     replacement_rgb, tolerance_var)
         /\ \A tol \in {tolerance_var, 10} : \A o \in Orders(SourceSet) :
               ReplaceResult(palette_image, o, replacement_rgb, tol).img
                 = ReplacedWhereAnyMatches(palette_image, SourceSet, replacement_rgb, tol)]_vars
\* a replacement of two source colours whose total counted a pixel twice
C29_Witness ==
    /\ replace_report.outcome = "done"
    /\ replace_report.total > Cardinality({p \in PosOf(palette_image) :
                                              ~IsWhite(palette_image.px[p])})

(***************************************************************************)
(* C30: the loop of the flood fill assigns each pixel at most once, and    *)
(* every fill call that enters the loop leaves it with the stack empty,    *)
(* whether or not the fill colour is within 30 of the seed's colour.       *)
(***************************************************************************)
InFill == fill_frame.pc # "none"
RecolouredAtMostOnce ==
    InFill => \A p \in DOMAIN fill_frame.writes : fill_frame.writes[p] <= 1
LoopLeft == fill_frame.pc = "done" /\ fill_frame.stack = <<>>
C30_FillTerminates == []RecolouredAtMostOnce /\ <>LoopLeft
\* a fill with a colour within 30 of the seed's colour has ended, every
\* pixel of the raster recoloured
C30_Witness ==
    /\ LoopLeft
    /\ WithinTol(fill_frame.fill_color, fill_frame.target_color, FillTolerance)
    /\ fill_frame.pixels_filled = fill_frame.w * fill_frame.h

(***************************************************************************)
(* C16: a command that is rejected by its validation (merge-all with fewer *)
(* than two palettes, merge-selected with fewer than two selected, XOR     *)
(* with no selection or no image, global separation without an image or a  *)
(* colour, local separation without a palette or a colour, rename to an id *)
(* that exists) leaves the palette collection, the palette counter, the    *)
(* selection set and the current palette id as they were.                  *)
(***************************************************************************)
CollectionState ==
    <<palettes_tab1, palette_counter_tab1, selected_palettes, current_palette_id_tab1>>

RejectedCall ==
    \/ /\ Len(palettes_tab1) < 2
       /\ merge_all_palettes
    \/ /\ Cardinality(selected_palettes) < 2
       /\ \E l \in Orders(selected_palettes) : merge_selected_palettes(l)
    \/ /\ selected_palettes = {} \/ original_image = NoImage
       /\ \E l \in Orders(selected_palettes) : xor_selected_palettes(l)
    \/ /\ original_image = NoImage \/ selected_rgb = NoColour
       /\ global_separation_tab1
    \/ /\ palettes_tab1 = <<>> \/ selected_rgb = NoColour
       /\ local_separation_tab1
    \/ \E id \in KeySet(palettes_tab1), n \in KeySet(palettes_tab1) :
           rename_palette_tab1(id, n)

C16_RejectedCallMutatesNothing ==
    [][RejectedCall => UNCHANGED CollectionState]_vars

\* commands have run in the window and it is still as it was constructed:
\* each of them was rejected
C16_Witness ==
    /\ ops = 2
    /\ original_image = NoImage
    /\ palettes_tab1 = <<>>
    /\ palette_counter_tab1 = 0
    /\ selected_palettes = {}
    /\ current_palette_id_tab1 = None

====
